---------------------------- MODULE Spec2Model ----------------------------
(***************************************************************************)
(* Model of the BM1387 control path of kasop: the nonce counters           *)
(* (src/src/counters.rs), the register codec and the PLL divider table     *)
(* with its nearest-match lookup (src/src/bm1387.rs), and the halt         *)
(* notification of tasks (src/src/halt.rs).                                *)
(*                                                                         *)
(* Numbers wider than 31 bits are kept exact: a u32 is a record of two     *)
(* 16-bit halves [hi, lo], and a u64 frequency is a record [mhz, hz]       *)
(* standing for mhz * 1_000_000 + hz.                                      *)
(***************************************************************************)
EXTENDS Integers, Sequences, FiniteSets, TLC

VARIABLES
    chain,      \* the live counters::HashChain
    snaps,      \* the values returned by snapshot(), oldest first
    snap_fresh, \* history: snap_fresh[i] is TRUE until the live chain is reset
    peak,       \* history: pointwise maximum of every counter since the last reset
    now,        \* the monotonic clock read by Instant::now()
    last,       \* history: the last counters operation and its arguments
    steps,      \* history: the number of counters operations so far
    panicked,   \* a counters operation indexed out of bounds
    pll,        \* the Lazy static PRECOMPUTED_PLL: None until first forced
    pll_init,   \* what the initializer of PRECOMPUTED_PLL returns when it is run
    call,       \* the last call of a pure codec function, with its arguments
    ret,        \* and what it returned
    once,       \* the state of the cell of PRECOMPUTED_PLL
    thread,     \* the threads calling lookup_freq: where each one is, what it holds
    builds,     \* history: how many times the initializer was started
    sender,     \* halt::Sender: the clients and the exit hooks registered
    client,     \* the tasks registered as clients: their ends of the channels
    halter,     \* the call of send_halt_internal: where it is, what it holds
    events      \* history: what send_halt_internal did, in order

vars ==
    <<chain, snaps, snap_fresh, peak, now, last, steps, panicked,
      pll, pll_init, call, ret, once, thread, builds,
      sender, client, halter, events>>

counterVars == <<chain, snaps, snap_fresh, peak, now, last, steps, panicked>>
codecVars == <<pll, pll_init, call, ret>>
lazyVars == <<once, thread, builds>>
haltVars == <<sender, client, halter, events>>

\* Option<T>: None is the empty sequence, Some(x) the sequence of x alone
None == <<>>
Some(x) == <<x>>

(***************************************************************************)
(* Bounds of the model.                                                    *)
(***************************************************************************)
MaxChips == 2       \* chip counts given to new() and set_chip_count()
MaxSteps == 3       \* counters operations applied after HashChain::new

(***************************************************************************)
(* Program constants.                                                      *)
(***************************************************************************)
CORE_ADR_SPACE_SIZE == 128

\* asic_difficulty values given to HashChain::new
Difficulties == {1, 64}

(***************************************************************************)
(* u32 values as two 16-bit halves.                                        *)
(***************************************************************************)
U32(h, l) == [hi |-> h, lo |-> l]

\* a decoder that keeps all eight bits of the top byte as the core
CoreAddress_new_wide_core(nonce) ==
    [chip |-> (nonce.lo \div 4) % 64,
     core |-> nonce.hi \div 256]

\* CoreAddress::new: chip = (nonce >> 2) & 0x3f, core = (nonce >> 24) & 0x7f
CoreAddress_new(nonce) ==
    [chip |-> (nonce.lo \div 4) % 64,
     core |-> (nonce.hi \div 256) % 128]

\* nonces fed to the counters
Nonces ==
    { U32(0, 0),            \* 0x00000000 -> chip 0, core 0
      U32(32512, 4),        \* 0x7F000004 -> chip 1, core 127
      U32(10768, 23901) }   \* 0x2A105D5D -> chip 23, core 42

(***************************************************************************)
(* counters.rs                                                             *)
(***************************************************************************)
Core_new == [valid |-> 0, errors |-> 0]

Chip_new ==
    [core |-> [j \in 0..(CORE_ADR_SPACE_SIZE - 1) |-> Core_new],
     valid |-> 0,
     errors |-> 0]

\* a reset that leaves the per-core counters alone
Chip_reset_shallow(c) == [c EXCEPT !.valid = 0, !.errors = 0]

Chip_reset(c) ==
    [core |-> [j \in DOMAIN c.core |-> Core_new], valid |-> 0, errors |-> 0]

HashChain_new(chip_count, asic_difficulty, t) ==
    [chip |-> [i \in 1..chip_count |-> Chip_new],
     valid |-> 0,
     errors |-> 0,
     started |-> t,
     stopped |-> None,
     asic_difficulty |-> asic_difficulty]

reset(hc, t) ==
    [hc EXCEPT !.valid = 0,
               !.errors = 0,
               !.chip = [i \in DOMAIN hc.chip |-> Chip_reset(hc.chip[i])],
               !.started = t]

\* a snapshot that forgets to stop the clock of the copy
snapshot_running(hc, t) == hc

snapshot(hc, t) == [hc EXCEPT !.stopped = Some(t)]

duration(hc, t) == (IF hc.stopped = None THEN t ELSE hc.stopped[1]) - hc.started

\* the index self.chip[addr.chip].core[addr.core] is out of bounds
index_panics(hc, addr) ==
    /\ addr.chip < Len(hc.chip)
    /\ addr.core >= CORE_ADR_SPACE_SIZE

\* add_valid counting events, not shares, at chip level
add_valid_unscaled(hc, addr) ==
    IF addr.chip >= Len(hc.chip)
    THEN hc
    ELSE [hc EXCEPT !.valid = @ + hc.asic_difficulty,
                    !.chip[addr.chip + 1].valid = @ + 1,
                    !.chip[addr.chip + 1].core[addr.core].valid =
                        @ + hc.asic_difficulty]

add_valid(hc, addr) ==
    IF addr.chip >= Len(hc.chip)
    THEN hc
    ELSE [hc EXCEPT !.valid = @ + hc.asic_difficulty,
                    !.chip[addr.chip + 1].valid = @ + hc.asic_difficulty,
                    !.chip[addr.chip + 1].core[addr.core].valid =
                        @ + hc.asic_difficulty]

\* add_error with the bounds check off by one
add_error_off_by_one(hc, addr) ==
    IF addr.chip > Len(hc.chip)
    THEN hc
    ELSE IF addr.chip = Len(hc.chip)
    THEN [hc EXCEPT !.errors = @ + 1]
    ELSE [hc EXCEPT !.errors = @ + 1,
                    !.chip[addr.chip + 1].errors = @ + 1,
                    !.chip[addr.chip + 1].core[addr.core].errors = @ + 1]

add_error(hc, addr) ==
    IF addr.chip >= Len(hc.chip)
    THEN hc
    ELSE [hc EXCEPT !.errors = @ + 1,
                    !.chip[addr.chip + 1].errors = @ + 1,
                    !.chip[addr.chip + 1].core[addr.core].errors = @ + 1]

\* a resize that only grows
set_chip_count_grow_only(hc, chip_count) ==
    [hc EXCEPT !.chip = [i \in 1..(IF chip_count > Len(hc.chip)
                                   THEN chip_count ELSE Len(hc.chip)) |->
                            IF i <= Len(hc.chip) THEN hc.chip[i] ELSE Chip_new]]

\* Vec::resize(chip_count, Chip::new())
set_chip_count(hc, chip_count) ==
    [hc EXCEPT !.chip = [i \in 1..chip_count |->
                            IF i <= Len(hc.chip) THEN hc.chip[i] ELSE Chip_new]]

chip_count(hc) == Len(hc.chip)

(***************************************************************************)
(* History bookkeeping for the counters.                                   *)
(***************************************************************************)
Max(a, b) == IF a >= b THEN a ELSE b

PeakOfCore(p, c) ==
    [valid |-> Max(p.valid, c.valid), errors |-> Max(p.errors, c.errors)]

PeakOfChip(p, c) ==
    [core |-> [j \in DOMAIN c.core |-> PeakOfCore(p.core[j], c.core[j])],
     valid |-> Max(p.valid, c.valid),
     errors |-> Max(p.errors, c.errors)]

\* the peak after the chain became hc: chips the peak has seen stay in it
PeakOf(p, hc) ==
    [valid |-> Max(p.valid, hc.valid),
     errors |-> Max(p.errors, hc.errors),
     chip |-> [i \in 1..Max(Len(p.chip), Len(hc.chip)) |->
                  IF i > Len(hc.chip) THEN p.chip[i]
                  ELSE IF i > Len(p.chip) THEN hc.chip[i]
                  ELSE PeakOfChip(p.chip[i], hc.chip[i])]]

PeakStart(hc) == [valid |-> hc.valid, errors |-> hc.errors, chip |-> hc.chip]

Op(op, addr, n) ==
    [op |-> op, chip |-> addr.chip, core |-> addr.core, n |-> n,
     pre_len |-> Len(chain.chip),
     pre_valid |-> chain.valid,
     pre_errors |-> chain.errors]

NoAddr == [chip |-> 0, core |-> 0]

(***************************************************************************)
(* Counters: the state machine.                                            *)
(***************************************************************************)
NoCall == [op |-> "none"]

\* halt::make_pair: no client, no exit hook, no halt under way
HaltIdle ==
    /\ sender = [clients |-> <<>>, exit_hooks |-> <<>>]
    /\ client = <<>>
    /\ halter = [pc |-> "idle", clients |-> <<>>, hooks |-> <<>>, waiting |-> 0]
    /\ events = <<>>

\* no thread has touched PRECOMPUTED_PLL
LazyIdle ==
    /\ once = "incomplete"
    /\ thread = <<>>
    /\ builds = 0

CodecIdle ==
    /\ LazyIdle
    /\ HaltIdle
    /\ pll = None
    /\ pll_init = <<>>
    /\ call = NoCall
    /\ ret = NoCall

CountersInit ==
    /\ now = 0
    /\ steps = 0
    /\ \E n \in 0..MaxChips, d \in Difficulties :
          /\ chain = HashChain_new(n, d, 0)
          /\ last = [op |-> "new", chip |-> 0, core |-> 0, n |-> n,
                     pre_len |-> 0, pre_valid |-> 0, pre_errors |-> 0]
    /\ peak = PeakStart(chain)
    /\ snaps = <<>>
    /\ snap_fresh = <<>>
    /\ panicked = FALSE
    /\ CodecIdle

\* every operation is one more step of the bounded run
Step ==
    /\ ~panicked
    /\ steps < MaxSteps
    /\ steps' = steps + 1
    /\ UNCHANGED <<codecVars, lazyVars, haltVars>>

\* Instant::now() is monotonic: it returns the last reading or a later one
ReadClock == now' \in {now, now + 1}

AddValid ==
    /\ Step
    /\ \E nonce \in Nonces :
          LET addr == CoreAddress_new(nonce) IN
          /\ chain' = add_valid(chain, addr)
          /\ panicked' = index_panics(chain, addr)
          /\ last' = Op("add_valid", addr, 0)
    /\ peak' = PeakOf(peak, chain')
    /\ UNCHANGED <<snaps, snap_fresh, now>>

AddError ==
    /\ Step
    /\ \E nonce \in Nonces :
          LET addr == CoreAddress_new(nonce) IN
          /\ chain' = add_error(chain, addr)
          /\ panicked' = index_panics(chain, addr)
          /\ last' = Op("add_error", addr, 0)
    /\ peak' = PeakOf(peak, chain')
    /\ UNCHANGED <<snaps, snap_fresh, now>>

Reset ==
    /\ Step
    /\ ReadClock
    /\ chain' = reset(chain, now')
    /\ last' = Op("reset", NoAddr, 0)
    /\ peak' = PeakStart(chain')
    /\ snap_fresh' = [i \in DOMAIN snap_fresh |-> FALSE]
    /\ UNCHANGED <<snaps, panicked>>

Snapshot ==
    /\ Step
    /\ ReadClock
    /\ snaps' = Append(snaps, snapshot(chain, now'))
    /\ snap_fresh' = Append(snap_fresh, TRUE)
    /\ last' = Op("snapshot", NoAddr, 0)
    /\ UNCHANGED <<chain, peak, panicked>>

SetChipCount ==
    /\ Step
    /\ \E n \in 0..MaxChips :
          /\ chain' = set_chip_count(chain, n)
          /\ last' = Op("set_chip_count", NoAddr, n)
    /\ peak' = PeakOf(peak, chain')
    /\ UNCHANGED <<snaps, snap_fresh, now, panicked>>

CountersNext ==
    \/ AddValid
    \/ AddError
    \/ Reset
    \/ Snapshot
    \/ SetChipCount

SpecCounters == CountersInit /\ [][CountersNext]_vars

(***************************************************************************)
(* Counters with operations on snapshots: the state machine.  A snapshot   *)
(* is a HashChain of its own, and every method of HashChain can be called  *)
(* on it.                                                                  *)
(***************************************************************************)
\* snaps[i].add_valid(addr) and snaps[i].add_error(addr)
SnapAdd ==
    /\ Step
    /\ \E i \in DOMAIN snaps, nonce \in Nonces, op \in {"add_valid", "add_error"} :
          LET addr == CoreAddress_new(nonce) IN
          /\ snaps' = [snaps EXCEPT ![i] = IF op = "add_valid"
                                           THEN add_valid(snaps[i], addr)
                                           ELSE add_error(snaps[i], addr)]
          /\ panicked' = index_panics(snaps[i], addr)
          /\ last' = Op("snap_" \o op, addr, i)
    /\ UNCHANGED <<chain, peak, snap_fresh, now>>

\* snaps[i].reset()
SnapReset ==
    /\ Step
    /\ ReadClock
    /\ \E i \in DOMAIN snaps :
          /\ snaps' = [snaps EXCEPT ![i] = reset(snaps[i], now')]
          /\ last' = Op("snap_reset", NoAddr, i)
    /\ UNCHANGED <<chain, peak, snap_fresh, panicked>>

\* snaps[i].set_chip_count(n)
SnapSetChipCount ==
    /\ Step
    /\ \E i \in DOMAIN snaps, n \in 0..MaxChips :
          /\ snaps' = [snaps EXCEPT ![i] = set_chip_count(snaps[i], n)]
          /\ last' = Op("snap_set_chip_count", NoAddr, i)
    /\ UNCHANGED <<chain, peak, snap_fresh, now, panicked>>

\* snaps[i].snapshot()
SnapSnapshot ==
    /\ Step
    /\ ReadClock
    /\ \E i \in DOMAIN snaps :
          /\ snaps' = Append(snaps, snapshot(snaps[i], now'))
          /\ snap_fresh' = Append(snap_fresh, snap_fresh[i])
          /\ last' = Op("snap_snapshot", NoAddr, i)
    /\ UNCHANGED <<chain, peak, panicked>>

SnapshotsNext ==
    \/ AddValid
    \/ AddError
    \/ Reset
    \/ Snapshot
    \/ SetChipCount
    \/ SnapAdd
    \/ SnapReset
    \/ SnapSetChipCount
    \/ SnapSnapshot

SpecSnapshots == CountersInit /\ [][SnapshotsNext]_vars


(***************************************************************************)
(* bm1387.rs: the PLL divider register and the frequency table.            *)
(***************************************************************************)
CHIP_OSC_CLK_HZ == 25000000
MIN_FREQ_HZ == 100000000
MAX_FREQ_HZ == 1200000000
BIN_SIZE_HZ == 1000000

\* a u64 as mhz * 1_000_000 + hz, 0 <= hz < 1_000_000
Wide(x) == [mhz |-> x \div 1000000, hz |-> x % 1000000]

\* x * f for 0 <= f < 256
WideMul(x, f) ==
    LET w == Wide(x)
        p == w.hz * f
    IN  [mhz |-> w.mhz * f + p \div 1000000, hz |-> p % 1000000]

\* floor(w / d) for 0 < d < 256
WideDiv(w, d) ==
    [mhz |-> w.mhz \div d,
     hz |-> ((w.mhz % d) * 1000000 + w.hz) \div d]

\* PllReg::calc: xtal * fbdiv / refdiv / postdiv1 / postdiv2 in u64
calc(reg, xtal_freq) ==
    WideDiv(WideDiv(WideDiv(WideMul(xtal_freq, reg.fbdiv), reg.refdiv),
                    reg.postdiv1),
            reg.postdiv2)

\* A u64 and the exact products around it, as five 16-bit limbs, the least
\* significant first: <<l1, ..., l5>> stands for the sum of l_k * 2^(16(k-1)).
\* Limbs 1..4 are the 64 bits of a u64; limb 5 holds what does not fit.
\* a * f exactly, for 0 <= f < 256
LimbsMul(a, f) ==
    LET p1 == a[1] * f
        p2 == a[2] * f + p1 \div 65536
        p3 == a[3] * f + p2 \div 65536
        p4 == a[4] * f + p3 \div 65536
        p5 == a[5] * f + p4 \div 65536
    IN  <<p1 % 65536, p2 % 65536, p3 % 65536, p4 % 65536, p5>>

\* floor(a / d), for 0 < d < 256
LimbsDiv(a, d) ==
    LET r5 == a[5] % d
        n4 == r5 * 65536 + a[4]
        n3 == (n4 % d) * 65536 + a[3]
        n2 == (n3 % d) * 65536 + a[2]
        n1 == (n2 % d) * 65536 + a[1]
    IN  <<n1 \div d, n2 \div d, n3 \div d, n4 \div d, a[5] \div d>>

\* a u64 multiplication that wraps: the low 64 bits of the product
wrapping_mul(a, f) == [LimbsMul(a, f) EXCEPT ![5] = 0]

\* x as usize, usize being usize_bits wide: the low bits of x
as_usize(x, usize_bits) ==
    IF usize_bits = 32 THEN <<x[1], x[2], 0, 0, 0>> ELSE x

\* PllReg::calc on a crystal frequency of any size, as built with or without
\* overflow checks for a usize of usize_bits bits:
\* (xtal_freq as u64 * fbdiv as u64 / refdiv as u64 / postdiv1 as u64
\*  / postdiv2 as u64) as usize
calc_u64(reg, xtal_freq, usize_bits, overflow_checks) ==
    LET product == LimbsMul(xtal_freq, reg.fbdiv) IN
    IF overflow_checks /\ product[5] # 0
    THEN [panicked |-> TRUE, value |-> <<>>]
    ELSE [panicked |-> FALSE,
          value |-> as_usize(
              LimbsDiv(LimbsDiv(LimbsDiv(wrapping_mul(xtal_freq, reg.fbdiv),
                                         reg.refdiv),
                                reg.postdiv1),
                       reg.postdiv2),
              usize_bits)]

distance(x, y) == IF x >= y THEN x - y ELSE y - x

PllReg(fbdiv, refdiv, postdiv1, postdiv2) ==
    [fbdiv |-> fbdiv, refdiv |-> refdiv,
     postdiv1 |-> postdiv1, postdiv2 |-> postdiv2]

\* try_divider replacing the entry of a bin also on a tie
try_divider_last_wins(freq_bins, xtal_freq, reg) ==
    LET min_mhz == MIN_FREQ_HZ \div BIN_SIZE_HZ
        max_mhz == MAX_FREQ_HZ \div BIN_SIZE_HZ
        wide == calc(reg, xtal_freq)
        bin_no == wide.mhz + (wide.hz + 500000) \div BIN_SIZE_HZ
        frequency == wide.mhz * 1000000 + wide.hz
        bin_freq == bin_no * BIN_SIZE_HZ
    IN  IF bin_no < min_mhz \/ bin_no > max_mhz
        THEN freq_bins
        ELSE IF /\ freq_bins[bin_no] # None
                /\ distance(bin_freq, freq_bins[bin_no][1].frequency)
                       < distance(bin_freq, frequency)
        THEN freq_bins
        ELSE [freq_bins EXCEPT ![bin_no] =
                 Some([frequency |-> frequency, reg |-> reg])]

\* try_divider choosing the bin by truncation instead of rounding
try_divider_floor_bin(freq_bins, xtal_freq, reg) ==
    LET min_mhz == MIN_FREQ_HZ \div BIN_SIZE_HZ
        max_mhz == MAX_FREQ_HZ \div BIN_SIZE_HZ
        wide == calc(reg, xtal_freq)
        bin_no == wide.mhz
        frequency == wide.mhz * 1000000 + wide.hz
        bin_freq == bin_no * BIN_SIZE_HZ
    IN  IF bin_no < min_mhz \/ bin_no > max_mhz
        THEN freq_bins
        ELSE IF /\ freq_bins[bin_no] # None
                /\ distance(bin_freq, freq_bins[bin_no][1].frequency)
                       <= distance(bin_freq, frequency)
        THEN freq_bins
        ELSE [freq_bins EXCEPT ![bin_no] =
                 Some([frequency |-> frequency, reg |-> reg])]

\* the body of the innermost loop of precompute_pll_table: freq_bins after
\* the divider reg has been tried
try_divider(freq_bins, xtal_freq, reg) ==
    LET min_mhz == MIN_FREQ_HZ \div BIN_SIZE_HZ
        max_mhz == MAX_FREQ_HZ \div BIN_SIZE_HZ
        wide == calc(reg, xtal_freq)
        \* (frequency + 500_000) / BIN_SIZE_HZ
        bin_no == wide.mhz + (wide.hz + 500000) \div BIN_SIZE_HZ
        frequency == wide.mhz * 1000000 + wide.hz
        bin_freq == bin_no * BIN_SIZE_HZ
    IN  IF bin_no < min_mhz \/ bin_no > max_mhz
        THEN freq_bins
        ELSE IF /\ freq_bins[bin_no] # None
                /\ distance(bin_freq, freq_bins[bin_no][1].frequency)
                       <= distance(bin_freq, frequency)
        THEN freq_bins
        ELSE [freq_bins EXCEPT ![bin_no] =
                 Some([frequency |-> frequency, reg |-> reg])]

\* The four nested for loops of precompute_pll_table.  Each loop runs its
\* range in ascending order; the range is split in halves, and the bins of
\* the first half are computed (the DOMAIN test, never true) before the second
\* half starts, only to keep the evaluation shallow.
RECURSIVE for_fbdiv(_, _, _, _, _, _, _)
for_fbdiv(bins, xtal, postdiv1, refdiv, postdiv2, lo, hi) ==
    IF lo > hi THEN bins
    ELSE IF lo = hi
    THEN try_divider(bins, xtal, PllReg(lo, refdiv, postdiv1, postdiv2))
    ELSE LET mid == (lo + hi) \div 2
             first == for_fbdiv(bins, xtal, postdiv1, refdiv, postdiv2, lo, mid)
         IN  IF DOMAIN first = {} THEN first
             ELSE for_fbdiv(first, xtal, postdiv1, refdiv, postdiv2, mid + 1, hi)

RECURSIVE for_postdiv2(_, _, _, _, _, _)
for_postdiv2(bins, xtal, postdiv1, refdiv, lo, hi) ==
    IF lo > hi THEN bins
    ELSE IF lo = hi
    THEN for_fbdiv(bins, xtal, postdiv1, refdiv, lo, 32, 127)
    ELSE LET mid == (lo + hi) \div 2
             first == for_postdiv2(bins, xtal, postdiv1, refdiv, lo, mid)
         IN  IF DOMAIN first = {} THEN first
             ELSE for_postdiv2(first, xtal, postdiv1, refdiv, mid + 1, hi)

RECURSIVE for_refdiv(_, _, _, _, _)
for_refdiv(bins, xtal, postdiv1, lo, hi) ==
    IF lo > hi THEN bins
    ELSE IF lo = hi
    THEN for_postdiv2(bins, xtal, postdiv1, lo, 1, postdiv1)
    ELSE LET mid == (lo + hi) \div 2
             first == for_refdiv(bins, xtal, postdiv1, lo, mid)
         IN  IF DOMAIN first = {} THEN first
             ELSE for_refdiv(first, xtal, postdiv1, mid + 1, hi)

RECURSIVE for_postdiv1(_, _, _, _)
for_postdiv1(bins, xtal, lo, hi) ==
    IF lo > hi THEN bins
    ELSE IF lo = hi
    THEN for_refdiv(bins, xtal, lo, 1, 63)
    ELSE LET mid == (lo + hi) \div 2
             first == for_postdiv1(bins, xtal, lo, mid)
         IN  IF DOMAIN first = {} THEN first
             ELSE for_postdiv1(first, xtal, mid + 1, hi)

\* freq_bins.drain(..).filter_map(|x| x).collect(): the bins that hold an
\* entry, in ascending bin order
RECURSIVE filter_bins(_, _, _)
filter_bins(bins, lo, hi) ==
    IF lo > hi THEN <<>>
    ELSE IF lo = hi THEN bins[lo]
    ELSE LET mid == (lo + hi) \div 2
         IN  filter_bins(bins, lo, mid) \o filter_bins(bins, mid + 1, hi)

precompute_pll_table(xtal_freq) ==
    LET max_mhz == MAX_FREQ_HZ \div BIN_SIZE_HZ
        empty == [b \in 0..max_mhz |-> None]
        freq_bins == for_postdiv1(empty, xtal_freq, 1, 7)
    IN  filter_bins(freq_bins, 0, max_mhz)

\* slice::binary_search_by_key over a table sorted by frequency:
\* [found |-> TRUE, i |-> index] or [found |-> FALSE, i |-> insertion point],
\* indices counted from 0
RECURSIVE binary_search(_, _, _, _)
binary_search(plls, target, left, right) ==
    IF left >= right THEN [found |-> FALSE, i |-> left]
    ELSE LET mid == left + (right - left) \div 2
             f == plls[mid + 1].frequency
         IN  IF f < target THEN binary_search(plls, target, mid + 1, right)
             ELSE IF f > target THEN binary_search(plls, target, left, mid)
             ELSE [found |-> TRUE, i |-> mid]

Ok(v) == [ok |-> TRUE, val |-> v]
Err(kind) == [ok |-> FALSE, val |-> kind]

\* a call that can panic returns [panicked, value]
Returned(v) == [panicked |-> FALSE, value |-> v]
Panic == [panicked |-> TRUE, value |-> <<>>]

\* lookup_freq breaking a tie towards the higher neighbour
lookup_freq_tie_up(plls, target_freq) ==
    LET result == binary_search(plls, target_freq, 0, Len(plls))
        i == result.i
    IN  IF result.found THEN Ok(plls[i + 1])
        ELSE IF i = 0 \/ i >= Len(plls) THEN Err("PLL")
        ELSE IF distance(plls[i].frequency, target_freq)
                    < distance(plls[i + 1].frequency, target_freq)
        THEN Ok(plls[i])
        ELSE Ok(plls[i + 1])

\* lookup_freq answering a target above the table with the last entry
lookup_freq_clamp_high(plls, target_freq) ==
    LET result == binary_search(plls, target_freq, 0, Len(plls))
        i == result.i
    IN  IF result.found THEN Ok(plls[i + 1])
        ELSE IF i = 0 THEN Err("PLL")
        ELSE IF i >= Len(plls) THEN Ok(plls[i])
        ELSE IF distance(plls[i].frequency, target_freq)
                    <= distance(plls[i + 1].frequency, target_freq)
        THEN Ok(plls[i])
        ELSE Ok(plls[i + 1])

\* PllFrequency::lookup_freq on the forced table plls; plls[i - 1] and plls[i]
\* of the code are plls[i] and plls[i + 1] here, sequences counting from 1
lookup_freq(plls, target_freq) ==
    LET result == binary_search(plls, target_freq, 0, Len(plls))
        i == result.i
    IN  IF result.found THEN Ok(plls[i + 1])
        ELSE IF i = 0 \/ i >= Len(plls) THEN Err("PLL")
        ELSE IF distance(plls[i].frequency, target_freq)
                    <= distance(plls[i + 1].frequency, target_freq)
        THEN Ok(plls[i])
        ELSE Ok(plls[i + 1])

\* Lazy::force: the cell's table, built by the initializer on first use
force_pll(cell, init) == IF cell = None THEN init ELSE cell[1]

(***************************************************************************)
(* PLL lookups: the state machine.                                         *)
(***************************************************************************)
SampleStride == 16  \* every SampleStride-th table entry is probed
TargetSpread == 1   \* targets lie up to TargetSpread Hz around a probe

\* the targets of the unit test test_pll_search that fit 31 bits
TestTargets ==
    {0, 50000000, 99999999, 100000000, 1200000000, 1200000001, 2000000000,
     216000000, 217400000, 217700000, 1081250000, 1081250001,
     650000000, 1033333333}

\* targets around the sampled entries, and around the midpoint between a
\* sampled entry and the next one
TargetsOf(plls) ==
    LET probes == {i \in 1..Len(plls) : i % SampleStride = 1 \/ i = Len(plls)}
        around == {plls[i].frequency + d :
                      i \in probes, d \in (0 - TargetSpread)..TargetSpread}
        mids == {plls[i].frequency
                    + (plls[i + 1].frequency - plls[i].frequency) \div 2 + d :
                      i \in probes \ {Len(plls)}, d \in 0..TargetSpread}
    IN  TestTargets \cup around \cup mids

CountersIdle ==
    /\ chain = HashChain_new(0, 1, 0)
    /\ snaps = <<>>
    /\ snap_fresh = <<>>
    /\ peak = PeakStart(chain)
    /\ now = 0
    /\ last = [op |-> "none"]
    /\ steps = 0
    /\ panicked = FALSE

PllInit ==
    /\ CountersIdle
    /\ LazyIdle
    /\ HaltIdle
    /\ pll = None
    /\ pll_init = precompute_pll_table(CHIP_OSC_CLK_HZ)
    /\ call = NoCall
    /\ ret = NoCall

\* PllFrequency::lookup_freq(target_freq)
LookupFreq ==
    LET plls == force_pll(pll, pll_init) IN
    /\ pll' = Some(plls)
    /\ UNCHANGED pll_init
    /\ UNCHANGED <<counterVars, lazyVars, haltVars>>
    /\ \E target \in TargetsOf(plls) :
          /\ call' = [op |-> "lookup_freq", target |-> target]
          /\ ret' = lookup_freq(plls, target)

PllNext == LookupFreq

SpecPll == PllInit /\ [][PllNext]_vars

(***************************************************************************)
(* The divider enumeration: the state machine.  A step is one iteration of *)
(* the loops of precompute_pll_table, seen next to the finished table.     *)
(***************************************************************************)
RefdivStride == 1   \* refdiv 1, 2 and every RefdivStride-th one are tried

TriedRefdivs == {r \in 1..63 : r <= 2 \/ r % RefdivStride = 0}

\* the position of a tuple in the order the loops visit them: postdiv1
\* outermost, then refdiv, then postdiv2, fbdiv innermost
LoopOrder(reg) ==
    ((reg.postdiv1 * 64 + reg.refdiv) * 8 + reg.postdiv2) * 128 + reg.fbdiv

\* one iteration, of the loops over postdiv1 in 1..=7, refdiv in 1..=63,
\* postdiv2 in 1..=postdiv1 and fbdiv in 32..128: the frequency of the
\* divider and the bin it rounds to
TryDivider ==
    /\ call = NoCall
    /\ \E postdiv1 \in 1..7, refdiv \in TriedRefdivs :
       \E postdiv2 \in 1..postdiv1, fbdiv \in 32..127 :
          LET reg == PllReg(fbdiv, refdiv, postdiv1, postdiv2)
              wide == calc(reg, CHIP_OSC_CLK_HZ)
          IN
             /\ call' = [op |-> "try_divider", reg |-> reg]
             /\ ret' = [frequency |-> wide,
                        bin_no |-> wide.mhz + (wide.hz + 500000) \div BIN_SIZE_HZ]
    /\ UNCHANGED <<pll, pll_init>>
    /\ UNCHANGED <<counterVars, lazyVars, haltVars>>

TableNext == TryDivider

SpecTable == PllInit /\ [][TableNext]_vars

(***************************************************************************)
(* Threads calling lookup_freq: the state machine.  PRECOMPUTED_PLL is a   *)
(* once_cell::sync::Lazy: a thread that needs the table loads the state of *)
(* the cell; it reads the value of a complete cell, claims an incomplete   *)
(* one with a compare-exchange and runs the initializer, and is parked on  *)
(* a running one until the state changes.                                  *)
(***************************************************************************)
MaxThreads == 2     \* threads calling lookup_freq
BuildSteps == 2     \* steps other threads can see the initializer take

\* what the threads look up
LazyTargets == {1081250000}

IdleThread ==
    [pc |-> "idle", target |-> 0, seen |-> "incomplete", progress |-> 0,
     local |-> <<>>, view |-> None, result |-> NoCall,
     built |-> FALSE, waited |-> FALSE]

LazyInit ==
    /\ CountersIdle
    /\ HaltIdle
    /\ pll = None
    /\ pll_init = precompute_pll_table(CHIP_OSC_CLK_HZ)
    /\ call = NoCall
    /\ ret = NoCall
    /\ once = "incomplete"
    /\ builds = 0
    /\ thread = [t \in 1..MaxThreads |-> IdleThread]

\* a compare-exchange that takes the cell for whoever asks
compare_exchange_blind(current, expected) == TRUE

\* AtomicUsize::compare_exchange(expected, _) on a cell whose state is
\* current: it succeeds only when the state is the expected one
compare_exchange(current, expected) == current = expected

\* the part of the table the initializer has collected after progress steps
partial_table(table, progress) ==
    SubSeq(table, 1, (Len(table) * progress) \div BuildSteps)

\* the threads keep everything else as it is
LazyFrame == UNCHANGED <<counterVars, pll_init, call, ret, haltVars>>

\* a thread enters lookup_freq(target)
CallLookup(t) ==
    /\ thread[t].pc = "idle"
    /\ \E target \in LazyTargets :
          thread' = [thread EXCEPT ![t] =
                        [IdleThread EXCEPT !.pc = "load", !.target = target]]
    /\ UNCHANGED <<pll, once, builds>>
    /\ LazyFrame

\* &PRECOMPUTED_PLL: the thread loads the state of the cell
Load(t) ==
    /\ thread[t].pc = "load"
    /\ thread' = [thread EXCEPT
          ![t].seen = once,
          ![t].pc = IF once = "complete" THEN "get"
                    ELSE IF once = "incomplete" THEN "claim"
                    ELSE "wait"]
    /\ UNCHANGED <<pll, once, builds>>
    /\ LazyFrame

\* the thread found the cell incomplete and tries to claim it; on success it
\* is the one that runs the initializer
Claim(t) ==
    /\ thread[t].pc = "claim"
    /\ IF compare_exchange(once, "incomplete")
       THEN /\ once' = "running"
            /\ builds' = builds + 1
            /\ thread' = [thread EXCEPT ![t].pc = "init", ![t].built = TRUE]
       ELSE /\ thread' = [thread EXCEPT ![t].pc = "load"]
            /\ UNCHANGED <<once, builds>>
    /\ UNCHANGED pll
    /\ LazyFrame

\* the thread found the cell running: it is parked until the state changes
Wait(t) ==
    /\ thread[t].pc = "wait"
    /\ once # "running"
    /\ thread' = [thread EXCEPT ![t].pc = "load", ![t].waited = TRUE]
    /\ UNCHANGED <<pll, once, builds>>
    /\ LazyFrame

\* the initializer, precompute_pll_table(CHIP_OSC_CLK_HZ), goes on in the
\* claiming thread
Build(t) ==
    /\ thread[t].pc = "init"
    /\ thread[t].progress < BuildSteps
    /\ thread' = [thread EXCEPT
          ![t].progress = @ + 1,
          ![t].local = partial_table(pll_init, thread[t].progress + 1)]
    /\ UNCHANGED <<pll, once, builds>>
    /\ LazyFrame

\* the initializer has returned: its table is stored in the cell, the cell
\* is complete and the parked threads are woken
Finish(t) ==
    /\ thread[t].pc = "init"
    /\ thread[t].progress = BuildSteps
    /\ pll' = Some(thread[t].local)
    /\ once' = "complete"
    /\ thread' = [thread EXCEPT ![t].pc = "get", ![t].local = <<>>]
    /\ UNCHANGED builds
    /\ LazyFrame

\* the thread takes the reference to the table of the cell
Get(t) ==
    /\ thread[t].pc = "get"
    /\ thread' = [thread EXCEPT ![t].pc = "search", ![t].view = pll]
    /\ UNCHANGED <<pll, once, builds>>
    /\ LazyFrame

\* the rest of lookup_freq, on the table the thread holds
Search(t) ==
    /\ thread[t].pc = "search"
    /\ thread' = [thread EXCEPT
          ![t].pc = "done",
          ![t].result = IF thread[t].view = None THEN NoCall
                        ELSE lookup_freq(thread[t].view[1], thread[t].target)]
    /\ UNCHANGED <<pll, once, builds>>
    /\ LazyFrame

\* lookup_freq returns
Return(t) ==
    /\ thread[t].pc = "done"
    /\ thread' = [thread EXCEPT ![t] = IdleThread]
    /\ UNCHANGED <<pll, once, builds>>
    /\ LazyFrame

LazyNext ==
    \E t \in 1..MaxThreads :
        \/ CallLookup(t)
        \/ Load(t)
        \/ Claim(t)
        \/ Wait(t)
        \/ Build(t)
        \/ Finish(t)
        \/ Get(t)
        \/ Search(t)
        \/ Return(t)

SpecLazy == LazyInit /\ [][LazyNext]_vars

(***************************************************************************)
(* bm1387.rs: the registers.  pack() lays the fields out in 4 bytes, most  *)
(* significant byte first, bit 31 being the top bit of byte 0.  A field    *)
(* narrower than its type keeps only the bits of its field width.          *)
(***************************************************************************)
Bit(b) == IF b THEN 1 ELSE 0

\* u32::from_be_bytes and u32::to_be_bytes
from_be_bytes(b) == U32(b[1] * 256 + b[2], b[3] * 256 + b[4])
to_be_bytes(reg) ==
    <<reg.hi \div 256, reg.hi % 256, reg.lo \div 256, reg.lo % 256>>

HashrateReg_pack(x) == to_be_bytes(x.hashrate24)
HashrateReg_unpack(b) == [ty |-> "HashrateReg", hashrate24 |-> from_be_bytes(b)]

TicketMaskReg_pack(x) == to_be_bytes(x.ticket_mask)
TicketMaskReg_unpack(b) ==
    [ty |-> "TicketMaskReg", ticket_mask |-> from_be_bytes(b)]

\* I2cControlFlags: busy is bit 7, do_command bit 0
I2cControlReg_pack(x) ==
    <<Bit(x.flags.busy) * 128 + Bit(x.flags.do_command), x.addr, x.reg, x.data>>
I2cControlReg_unpack(b) ==
    [ty |-> "I2cControlReg",
     flags |-> [busy |-> (b[1] \div 128) % 2 = 1, do_command |-> b[1] % 2 = 1],
     addr |-> b[2],
     reg |-> b[3],
     data |-> b[4]]

\* ChipRev and its EnumCatchAll wrapper
Bm1387 == 4999  \* 0x1387
EnumCatchAll_to_primitive(e) == e.v
EnumCatchAll_from_primitive(v) ==
    IF v = Bm1387 THEN [tag |-> "Enum", v |-> v] ELSE [tag |-> "CatchAll", v |-> v]

GetAddressReg_pack(x) ==
    LET rev == EnumCatchAll_to_primitive(x.chip_rev)
    IN  <<rev \div 256, rev % 256, x.reserved1, x.addr>>
GetAddressReg_unpack(b) ==
    [ty |-> "GetAddressReg",
     chip_rev |-> EnumCatchAll_from_primitive(b[1] * 256 + b[2]),
     reserved1 |-> b[3],
     addr |-> b[4]]

TfSelector_to_primitive(e) ==
    CASE e = "HashDoing" -> 0
      [] e = "UartReceiving" -> 1
      [] e = "UartTransmitting" -> 2
      [] e = "SCL0" -> 3
\* a TF selector without its last variant
TfSelector_from_primitive_no_scl(v) ==
    CASE v = 0 -> Some("HashDoing")
      [] v = 1 -> Some("UartReceiving")
      [] v = 2 -> Some("UartTransmitting")
      [] OTHER -> None

\* PrimitiveEnum::from_primitive: None for a value that is no variant
TfSelector_from_primitive(v) ==
    CASE v = 0 -> Some("HashDoing")
      [] v = 1 -> Some("UartReceiving")
      [] v = 2 -> Some("UartTransmitting")
      [] v = 3 -> Some("SCL0")
      [] OTHER -> None

RfSelector_to_primitive(e) == CASE e = "OpenDrain" -> 0 [] e = "SDA0" -> 1
RfSelector_from_primitive(v) ==
    CASE v = 0 -> Some("OpenDrain") [] v = 1 -> Some("SDA0") [] OTHER -> None

I2cBusSelect_to_primitive(e) == CASE e = "Bottom" -> 0 [] e = "Middle" -> 1
I2cBusSelect_from_primitive(v) ==
    CASE v = 0 -> Some("Bottom") [] v = 1 -> Some("Middle") [] OTHER -> None

\* MiscCtrlReg: not_set_baud bit 30, inv_clock 21, i2c_bus 16, gate_block 15,
\* rfs 14, baud_div 12:8, mmen 7, tfs 6:5
MiscCtrlReg_pack(x) ==
    <<Bit(x.not_set_baud) * 64,
      Bit(x.inv_clock) * 32 + I2cBusSelect_to_primitive(x.i2c_bus),
      Bit(x.gate_block) * 128 + RfSelector_to_primitive(x.rfs) * 64
          + (x.baud_div % 32),
      Bit(x.mmen) * 128 + TfSelector_to_primitive(x.tfs) * 32>>
\* unpack fails when an enum field holds a value that is no variant
MiscCtrlReg_unpack(b) ==
    LET i2c_bus == I2cBusSelect_from_primitive(b[2] % 2)
        rfs == RfSelector_from_primitive((b[3] \div 64) % 2)
        tfs == TfSelector_from_primitive((b[4] \div 32) % 4)
    IN  IF i2c_bus = None \/ rfs = None \/ tfs = None
        THEN Err("PackingError")
        ELSE Ok([ty |-> "MiscCtrlReg",
                 not_set_baud |-> (b[1] \div 64) % 2 = 1,
                 inv_clock |-> (b[2] \div 32) % 2 = 1,
                 i2c_bus |-> i2c_bus[1],
                 gate_block |-> (b[3] \div 128) % 2 = 1,
                 rfs |-> rfs[1],
                 baud_div |-> b[3] % 32,
                 mmen |-> (b[4] \div 128) % 2 = 1,
                 tfs |-> tfs[1]])

\* PllReg: fbdiv bits 23:16, refdiv 11:8, postdiv1 7:4, postdiv2 3:0
PllReg_pack(x) ==
    <<0,
      x.fbdiv % 256,
      x.refdiv % 16,
      (x.postdiv1 % 16) * 16 + (x.postdiv2 % 16)>>
PllReg_unpack(b) ==
    [ty |-> "PllReg",
     fbdiv |-> b[2],
     refdiv |-> b[3] % 16,
     postdiv1 |-> (b[4] \div 16) % 16,
     postdiv2 |-> b[4] % 16]

pack(x) ==
    CASE x.ty = "HashrateReg" -> HashrateReg_pack(x)
      [] x.ty = "TicketMaskReg" -> TicketMaskReg_pack(x)
      [] x.ty = "I2cControlReg" -> I2cControlReg_pack(x)
      [] x.ty = "GetAddressReg" -> GetAddressReg_pack(x)
      [] x.ty = "MiscCtrlReg" -> MiscCtrlReg_pack(x)
      [] x.ty = "PllReg" -> PllReg_pack(x)

unpack(ty, b) ==
    CASE ty = "HashrateReg" -> Ok(HashrateReg_unpack(b))
      [] ty = "TicketMaskReg" -> Ok(TicketMaskReg_unpack(b))
      [] ty = "I2cControlReg" -> Ok(I2cControlReg_unpack(b))
      [] ty = "GetAddressReg" -> Ok(GetAddressReg_unpack(b))
      [] ty = "MiscCtrlReg" -> MiscCtrlReg_unpack(b)
      [] ty = "PllReg" -> Ok(PllReg_unpack(b))

\* Register::to_reg and Register::from_reg
to_reg(x) == from_be_bytes(pack(x))
from_reg(ty, reg) ==
    LET r == unpack(ty, to_be_bytes(reg))
    IN  IF r.ok THEN Returned(r.val) ELSE Panic

\* the PllReg the table search builds from its loop variables
PllReg_value(fbdiv, refdiv, postdiv1, postdiv2) ==
    [ty |-> "PllReg", fbdiv |-> fbdiv, refdiv |-> refdiv,
     postdiv1 |-> postdiv1, postdiv2 |-> postdiv2]

(***************************************************************************)
(* bm1387.rs: the constructors of TicketMaskReg and MiscCtrlReg.  A        *)
(* constructor that reports an error returns Err(kind), no panic.          *)
(***************************************************************************)
RECURSIVE count_ones16(_)
count_ones16(v) == IF v = 0 THEN 0 ELSE (v % 2) + count_ones16(v \div 2)

\* u32::is_power_of_two: exactly one bit is set
is_power_of_two(x) == count_ones16(x.hi) + count_ones16(x.lo) = 1

\* the n low bits of v in reverse order
RECURSIVE reverse(_, _)
reverse(v, n) ==
    IF n = 0 THEN 0 ELSE (v % 2) * 2 ^ (n - 1) + reverse(v \div 2, n - 1)

\* a reversal of each half that leaves the halves where they are
reverse_bits_in_halves(x) == U32(reverse(x.hi, 16), reverse(x.lo, 16))

\* u32::reverse_bits: bit i goes to bit 31 - i
reverse_bits(x) == U32(reverse(x.lo, 16), reverse(x.hi, 16))

\* u32::swap_bytes: byte i goes to byte 3 - i
swap_bytes(x) ==
    U32((x.lo % 256) * 256 + x.lo \div 256, (x.hi % 256) * 256 + x.hi \div 256)

\* difficulty - 1, for difficulty > 0
minus_one(x) ==
    IF x.lo > 0 THEN U32(x.hi, x.lo - 1) ELSE U32(x.hi - 1, 65535)

\* a constructor that only rejects zero
TicketMaskReg_new_any_nonzero(difficulty) ==
    IF difficulty = U32(0, 0) THEN Err("General")
    ELSE Ok([ty |-> "TicketMaskReg",
             ticket_mask |-> swap_bytes(reverse_bits(minus_one(difficulty)))])

\* TicketMaskReg::new
TicketMaskReg_new(difficulty) ==
    IF difficulty = U32(0, 0) THEN Err("General")
    ELSE IF ~is_power_of_two(difficulty) THEN Err("General")
    ELSE Ok([ty |-> "TicketMaskReg",
             ticket_mask |-> swap_bytes(reverse_bits(minus_one(difficulty)))])

MAX_BAUD_CLOCK_DIV == 26

\* a constructor that rejects the largest divisor as well
MiscCtrlReg_new_below_max(not_set_baud, inv_clock, baud_div, gate_block, mmen) ==
    IF baud_div >= MAX_BAUD_CLOCK_DIV THEN Err("BaudRate")
    ELSE Ok([ty |-> "MiscCtrlReg", not_set_baud |-> not_set_baud,
             inv_clock |-> inv_clock, baud_div |-> (baud_div % 256) % 32,
             gate_block |-> gate_block, mmen |-> mmen, tfs |-> "HashDoing",
             rfs |-> "OpenDrain", i2c_bus |-> "Bottom"])

\* MiscCtrlReg::new; (baud_div as u8).into() keeps the low 8 bits and the
\* 5-bit field the low 5 of them
MiscCtrlReg_new(not_set_baud, inv_clock, baud_div, gate_block, mmen) ==
    IF baud_div > MAX_BAUD_CLOCK_DIV THEN Err("BaudRate")
    ELSE Ok([ty |-> "MiscCtrlReg", not_set_baud |-> not_set_baud,
             inv_clock |-> inv_clock, baud_div |-> (baud_div % 256) % 32,
             gate_block |-> gate_block, mmen |-> mmen, tfs |-> "HashDoing",
             rfs |-> "OpenDrain", i2c_bus |-> "Bottom"])

\* a set_i2c that leaves the pin functions alone when the bus is None
set_i2c_keep_pins(self, i2c_bus) ==
    IF i2c_bus # None
    THEN [self EXCEPT !.not_set_baud = TRUE, !.gate_block = FALSE,
                      !.tfs = "SCL0", !.rfs = "SDA0", !.i2c_bus = i2c_bus[1]]
    ELSE [self EXCEPT !.not_set_baud = TRUE, !.gate_block = FALSE]

\* MiscCtrlReg::set_i2c
set_i2c(self, i2c_bus) ==
    IF i2c_bus # None
    THEN [self EXCEPT !.not_set_baud = TRUE, !.gate_block = FALSE,
                      !.tfs = "SCL0", !.rfs = "SDA0", !.i2c_bus = i2c_bus[1]]
    ELSE [self EXCEPT !.not_set_baud = TRUE, !.gate_block = FALSE,
                      !.tfs = "HashDoing", !.rfs = "OpenDrain",
                      !.i2c_bus = "Bottom"]

(***************************************************************************)
(* bm1387.rs: chip addresses and command frames.  A function that can      *)
(* panic returns [panicked, value].  A build is the width of usize and     *)
(* whether arithmetic overflow is checked (it panics) or wraps.            *)
(***************************************************************************)
Builds ==
    {[usize_bits |-> u, overflow_checks |-> o] : u \in {32, 64}, o \in BOOLEAN}

\* a constructor that takes 8 midstates as well
MidstateCount_new_up_to_8(count) ==
    IF count = 1 THEN Returned([log2 |-> 0])
    ELSE IF count = 2 THEN Returned([log2 |-> 1])
    ELSE IF count = 4 THEN Returned([log2 |-> 2])
    ELSE IF count = 8 THEN Returned([log2 |-> 3])
    ELSE Panic

\* MidstateCount::new
MidstateCount_new(count) ==
    IF count = 1 THEN Returned([log2 |-> 0])
    ELSE IF count = 2 THEN Returned([log2 |-> 1])
    ELSE IF count = 4 THEN Returned([log2 |-> 2])
    ELSE Panic

\* MidstateCount::to_reg
MidstateCount_to_reg(self) ==
    IF self.log2 = 0 THEN Returned("ONE")
    ELSE IF self.log2 = 1 THEN Returned("TWO")
    ELSE IF self.log2 = 2 THEN Returned("FOUR")
    ELSE Panic

\* MidstateCount::to_count: 1 << log2
to_count(self) == 2 ^ self.log2

\* MidstateCount::to_bits
to_bits(self) == self.log2

\* MidstateCount::to_mask: (1 << log2) - 1
to_mask(self) == 2 ^ self.log2 - 1

ChipAddress_All == [tag |-> "All"]
ChipAddress_One(x) == [tag |-> "One", x |-> x]

is_broadcast(chip_address) == chip_address.tag = "All"

\* ChipAddress::to_hw_addr: ((*x) * 4).try_into().expect(..).  x is below
\* 2^31 here, so x * 4 overflows a usize of 32 bits from 2^30 on, and never
\* one of 64 bits; the product that wrapped is (x mod 2^30) * 4.
to_hw_addr(chip_address, build) ==
    IF chip_address.tag = "All" THEN Returned(0)
    ELSE LET x == chip_address.x
             overflows == build.usize_bits = 32 /\ x >= 1073741824
             quarter == IF overflows THEN x % 1073741824 ELSE x
         IN  IF overflows /\ build.overflow_checks THEN Panic
             ELSE IF quarter > 63 THEN Panic
             ELSE Returned(quarter * 4)

VilCtlCmd == 2

\* Cmd::new: code.into() keeps the 4 bits of an Integer<u8, Bits4>
Cmd_new(code, to_all) ==
    [code |-> code % 16, to_all |-> to_all, cmd_type |-> VilCtlCmd]

\* Cmd, one byte, lsb0: bits 0:3 code, bit 4 to_all, bits 5:7 cmd_type
Cmd_pack(cmd) == cmd.code + 16 * Bit(cmd.to_all) + 32 * cmd.cmd_type

CmdHeader_new_extended(code, length, chip_address, checksum_size, build) ==
    LET hw_addr == to_hw_addr(chip_address, build) IN
    IF hw_addr.panicked THEN Panic
    ELSE Returned([cmd |-> Cmd_new(code, is_broadcast(chip_address)),
                   length |-> (length + checksum_size) % 256,
                   hw_addr |-> hw_addr.value])

\* size_of::<u8>()
Crc5Size == 1

\* CmdHeader::new leaving the checksum out of the length
CmdHeader_new_no_checksum(code, length, chip_address, build) ==
    CmdHeader_new_extended(code, length, chip_address, 0, build)

CmdHeader_new(code, length, chip_address, build) ==
    CmdHeader_new_extended(code, length, chip_address, Crc5Size, build)

CmdHeader_pack(header) ==
    <<Cmd_pack(header.cmd), header.length, header.hw_addr>>

\* Self::packed_bytes() of the four commands
SetConfigCmd_packed_bytes == 8
GetStatusCmd_packed_bytes == 4
SetChipAddressCmd_packed_bytes == 4
InactivateFromChainCmd_packed_bytes == 4

SetConfigCmd_new(chip_address, register, value, build) ==
    LET header == CmdHeader_new(8, SetConfigCmd_packed_bytes, chip_address, build)
    IN  IF header.panicked THEN Panic
        ELSE Returned([ty |-> "SetConfigCmd", header |-> header.value,
                       register |-> register, value |-> value])

GetStatusCmd_new(chip_address, register, build) ==
    LET header == CmdHeader_new(4, GetStatusCmd_packed_bytes, chip_address, build)
    IN  IF header.panicked THEN Panic
        ELSE Returned([ty |-> "GetStatusCmd", header |-> header.value,
                       register |-> register])

\* SetChipAddressCmd::new without its assertion
SetChipAddressCmd_new_unchecked(chip_address, build) ==
    LET header == CmdHeader_new(1, SetChipAddressCmd_packed_bytes,
                                chip_address, build)
    IN  IF header.panicked THEN Panic
        ELSE Returned([ty |-> "SetChipAddressCmd", header |-> header.value,
                       reserved |-> 0])

SetChipAddressCmd_new(chip_address, build) ==
    IF is_broadcast(chip_address) THEN Panic
    ELSE LET header == CmdHeader_new(1, SetChipAddressCmd_packed_bytes,
                                     chip_address, build)
         IN  IF header.panicked THEN Panic
             ELSE Returned([ty |-> "SetChipAddressCmd",
                            header |-> header.value, reserved |-> 0])

InactivateFromChainCmd_new(build) ==
    LET header == CmdHeader_new(5, InactivateFromChainCmd_packed_bytes,
                                ChipAddress_All, build)
    IN  IF header.panicked THEN Panic
        ELSE Returned([ty |-> "InactivateFromChainCmd",
                       header |-> header.value, reserved |-> 0])

\* pack() of a command, msb first: the header, then the fields in order
Cmd_frame(cmd) ==
    LET h == CmdHeader_pack(cmd.header) IN
    IF cmd.ty = "SetConfigCmd"
    THEN LET v == to_be_bytes(cmd.value)
         IN  <<h[1], h[2], h[3], cmd.register, v[1], v[2], v[3], v[4]>>
    ELSE IF cmd.ty = "GetStatusCmd" THEN <<h[1], h[2], h[3], cmd.register>>
    ELSE <<h[1], h[2], h[3], cmd.reserved>>

(***************************************************************************)
(* Register values the code can construct, a sample of each type.          *)
(***************************************************************************)
HashrateRegs ==
    {[ty |-> "HashrateReg", hashrate24 |-> w] :
        w \in {U32(0, 0), U32(0, 35), U32(32768, 1), U32(65535, 65535)}}

TicketMaskRegs ==
    {[ty |-> "TicketMaskReg", ticket_mask |-> w] :
        w \in {U32(0, 0), U32(0, 252), U32(0, 57599), U32(65279, 65535)}}

I2cControlRegs ==
    {[ty |-> "I2cControlReg",
      flags |-> [busy |-> busy, do_command |-> do],
      addr |-> a, reg |-> r, data |-> d] :
        busy \in BOOLEAN, do \in BOOLEAN,
        a \in {0, 154}, r \in {0, 255}, d \in {0, 85}}

GetAddressRegs ==
    {[ty |-> "GetAddressReg", chip_rev |-> rev, reserved1 |-> r, addr |-> a] :
        rev \in {EnumCatchAll_from_primitive(v) : v \in {Bm1387, 4998, 0, 65535}},
        r \in {0, 144}, a \in {0, 4, 252}}

PinFunctions ==
    {<<"HashDoing", "OpenDrain", "Bottom">>, <<"SCL0", "SDA0", "Middle">>,
     <<"UartReceiving", "SDA0", "Bottom">>,
     <<"UartTransmitting", "OpenDrain", "Middle">>}

MiscCtrlRegs ==
    {[ty |-> "MiscCtrlReg", not_set_baud |-> nsb, inv_clock |-> ic,
      i2c_bus |-> pf[3], gate_block |-> gb, rfs |-> pf[2], baud_div |-> bd,
      mmen |-> mm, tfs |-> pf[1]] :
        nsb \in BOOLEAN, ic \in BOOLEAN, gb \in BOOLEAN, mm \in BOOLEAN,
        bd \in {0, 26, 31}, pf \in PinFunctions}

\* dividers from the ranges precompute_pll_table enumerates
PllRegs ==
    {PllReg_value(f, r, p1, p2) :
        f \in {32, 104, 127}, r \in {1, 2, 15, 16, 25, 63},
        p1 \in {1, 2, 7}, p2 \in {1, 2}}

Registers ==
    HashrateRegs \cup TicketMaskRegs \cup I2cControlRegs \cup GetAddressRegs
        \cup MiscCtrlRegs \cup PllRegs

(***************************************************************************)
(* Codec calls: the state machine.  A behaviour is one call of one pure    *)
(* function on one input.                                                  *)
(***************************************************************************)
CodecInit ==
    /\ CountersIdle
    /\ CodecIdle

\* x.to_reg() written to the chip and read back with from_reg
RegRoundTrip ==
    /\ call = NoCall
    /\ \E x \in Registers :
          /\ call' = [op |-> "reg_round_trip", x |-> x]
          /\ ret' = [bytes |-> pack(x),
                     reg |-> to_reg(x),
                     back |-> from_reg(x.ty, to_reg(x)).value]
    /\ UNCHANGED <<pll, pll_init>>
    /\ UNCHANGED <<counterVars, lazyVars, haltVars>>

\* crystal frequencies as limbs: 0, 1, 12 MHz, 25 MHz, u32::MAX, 2^56 and
\* u64::MAX
XtalFreqs ==
    {<<0, 0, 0, 0, 0>>, <<1, 0, 0, 0, 0>>, <<6912, 183, 0, 0, 0>>,
     <<30784, 381, 0, 0, 0>>, <<65535, 65535, 0, 0, 0>>,
     <<0, 0, 0, 256, 0>>, <<65535, 65535, 65535, 65535, 0>>}

\* non-zero dividers, u8 each
CalcRegs ==
    {PllReg_value(f, r, p1, p2) :
        f \in {1, 32, 104, 127, 255}, r \in {1, 2, 63, 255},
        p1 \in {1, 2, 7}, p2 \in {1, 3, 7}}

\* reg.calc(xtal_freq), in a build for a usize of 32 or of 64 bits, with or
\* without overflow checks
Calc ==
    /\ call = NoCall
    /\ \E reg \in CalcRegs, xtal_freq \in XtalFreqs,
          usize_bits \in {32, 64}, overflow_checks \in BOOLEAN :
          /\ usize_bits = 32 => xtal_freq[3] = 0 /\ xtal_freq[4] = 0
          /\ call' = [op |-> "calc", reg |-> reg, xtal_freq |-> xtal_freq,
                      usize_bits |-> usize_bits,
                      overflow_checks |-> overflow_checks]
          /\ LET r == calc_u64(reg, xtal_freq, usize_bits, overflow_checks)
             IN  ret' = [panicked |-> r.panicked, value |-> r.value,
                         reg |-> to_reg(reg)]
    /\ UNCHANGED <<pll, pll_init>>
    /\ UNCHANGED <<counterVars, lazyVars, haltVars>>

\* chip addresses: broadcast, the ones of the tests, the ends of the range
\* and beyond
ChipAddresses ==
    {ChipAddress_All} \cup
    {ChipAddress_One(x) : x \in {0, 1, 9, 62, 63, 64, 255, 1073741824}}

ConfigRegisters == {0, 12, 24, 28}

ConfigValues == {U32(0, 0), U32(104, 545), U32(0, 252), U32(65535, 65535)}

\* chip_address.is_broadcast() and chip_address.to_hw_addr()
ToHwAddr ==
    /\ call = NoCall
    /\ \E chip_address \in ChipAddresses, build \in Builds :
          /\ call' = [op |-> "to_hw_addr", chip_address |-> chip_address,
                      build |-> build]
          /\ LET r == to_hw_addr(chip_address, build)
             IN  ret' = [panicked |-> r.panicked, hw_addr |-> r.value,
                         is_broadcast |-> is_broadcast(chip_address)]
    /\ UNCHANGED <<pll, pll_init>>
    /\ UNCHANGED <<counterVars, lazyVars, haltVars>>

\* what building a command returns, and the frame cmd.pack() of it
Built(cmd_name, chip_address, build, register, value, new) ==
    /\ call' = [op |-> "cmd", cmd |-> cmd_name,
                chip_address |-> chip_address, build |-> build,
                register |-> register, value |-> value]
    /\ ret' = [panicked |-> new.panicked, cmd |-> new.value,
               frame |-> IF new.panicked THEN <<>> ELSE Cmd_frame(new.value)]

\* SetConfigCmd::new(chip_address, register, value).pack()
SetConfig ==
    /\ call = NoCall
    /\ \E chip_address \in ChipAddresses, build \in Builds,
          register \in ConfigRegisters, value \in ConfigValues :
          Built("SetConfig", chip_address, build, register, value,
                SetConfigCmd_new(chip_address, register, value, build))
    /\ UNCHANGED <<pll, pll_init>>
    /\ UNCHANGED <<counterVars, lazyVars, haltVars>>

\* GetStatusCmd::new(chip_address, register).pack()
GetStatus ==
    /\ call = NoCall
    /\ \E chip_address \in ChipAddresses, build \in Builds,
          register \in ConfigRegisters :
          Built("GetStatus", chip_address, build, register, U32(0, 0),
                GetStatusCmd_new(chip_address, register, build))
    /\ UNCHANGED <<pll, pll_init>>
    /\ UNCHANGED <<counterVars, lazyVars, haltVars>>

\* SetChipAddressCmd::new(chip_address).pack()
SetChipAddress ==
    /\ call = NoCall
    /\ \E chip_address \in ChipAddresses, build \in Builds :
          Built("SetChipAddress", chip_address, build, 0, U32(0, 0),
                SetChipAddressCmd_new(chip_address, build))
    /\ UNCHANGED <<pll, pll_init>>
    /\ UNCHANGED <<counterVars, lazyVars, haltVars>>

\* InactivateFromChainCmd::new().pack()
InactivateFromChain ==
    /\ call = NoCall
    /\ \E build \in Builds :
          Built("InactivateFromChain", ChipAddress_All, build, 0, U32(0, 0),
                InactivateFromChainCmd_new(build))
    /\ UNCHANGED <<pll, pll_init>>
    /\ UNCHANGED <<counterVars, lazyVars, haltVars>>

\* nonces a chip can return: every combination of these halves
NonceHalvesHi ==
    {0, 10768, 16613, 18214, 32512, 32768, 42464, 53847, 54652, 65280, 65535}
NonceHalvesLo ==
    {0, 3, 4, 252, 255, 256, 7396, 14547, 22096, 23901, 36121, 37411, 65535}

\* lengths of the chain the decoded address is counted on
ChainLengths == {0, 24, 64}

\* CoreAddress::new(nonce), then add_valid or add_error with the address on
\* a fresh chain of chip_count chips
CoreAddressNew ==
    /\ call = NoCall
    /\ \E h \in NonceHalvesHi, l \in NonceHalvesLo, n \in ChainLengths,
          counter \in {"add_valid", "add_error"} :
          LET addr == CoreAddress_new(U32(h, l))
              hc == HashChain_new(n, 1, 0)
              oob == index_panics(hc, addr)
              after == IF counter = "add_valid"
                       THEN add_valid(hc, addr) ELSE add_error(hc, addr)
              core == after.chip[addr.chip + 1].core[addr.core]
          IN  /\ call' = [op |-> "core_address", nonce |-> U32(h, l),
                          chip_count |-> n, counter |-> counter]
              /\ ret' = [addr |-> addr,
                         index_panics |-> oob,
                         counted |-> IF oob \/ addr.chip >= n THEN 0
                                     ELSE IF counter = "add_valid"
                                     THEN core.valid ELSE core.errors,
                         total |-> IF counter = "add_valid"
                                   THEN after.valid ELSE after.errors]
    /\ UNCHANGED <<pll, pll_init>>
    /\ UNCHANGED <<counterVars, lazyVars, haltVars>>

\* counts given to MidstateCount::new
MidstateCounts == {0, 1, 2, 3, 4, 5, 8, 16, 2147483647}

\* MidstateCount::new(count) and what the accessors of the result return
MidstateCountNew ==
    /\ call = NoCall
    /\ \E count \in MidstateCounts :
          LET new == MidstateCount_new(count)
              reg == IF new.panicked THEN Panic
                     ELSE MidstateCount_to_reg(new.value)
          IN  /\ call' = [op |-> "midstate_count", count |-> count]
              /\ ret' = IF new.panicked
                        THEN [panicked |-> TRUE]
                        ELSE [panicked |-> FALSE,
                              midstates |-> to_count(new.value),
                              bits |-> to_bits(new.value),
                              mask |-> to_mask(new.value),
                              reg_panicked |-> reg.panicked,
                              reg |-> reg.value]
    /\ UNCHANGED <<pll, pll_init>>
    /\ UNCHANGED <<counterVars, lazyVars, haltVars>>

\* difficulties given to TicketMaskReg::new: 0, every power of two of a u32,
\* and values that are no power of two
TicketDifficulties ==
    {U32(0, 0)}
        \cup {U32(0, 2 ^ k) : k \in 0..15} \cup {U32(2 ^ k, 0) : k \in 0..15}
        \cup {U32(0, 3), U32(0, 6), U32(0, 2047), U32(0, 65535), U32(1, 1),
              U32(3, 0), U32(32768, 1), U32(32768, 32768), U32(65535, 65535)}

\* TicketMaskReg::new(difficulty) and to_reg() of the register it returns
TicketMaskNew ==
    /\ call = NoCall
    /\ \E difficulty \in TicketDifficulties :
          LET new == TicketMaskReg_new(difficulty)
          IN  /\ call' = [op |-> "ticket_mask", difficulty |-> difficulty]
              /\ ret' = IF new.ok
                        THEN [ok |-> TRUE, ticket_reg |-> to_reg(new.val)]
                        ELSE [ok |-> FALSE, error |-> new.val]
    /\ UNCHANGED <<pll, pll_init>>
    /\ UNCHANGED <<counterVars, lazyVars, haltVars>>

\* divisors given to MiscCtrlReg::new
BaudDivs == {0, 1, 25, 26, 27, 31, 32, 255, 256, 282, 2147483647}

\* MiscCtrlReg::new(not_set_baud, inv_clock, baud_div, gate_block, mmen) and
\* pack() of the register it returns
MiscCtrlNew ==
    /\ call = NoCall
    /\ \E not_set_baud \in BOOLEAN, inv_clock \in BOOLEAN, baud_div \in BaudDivs,
          gate_block \in BOOLEAN, mmen \in BOOLEAN :
          LET new == MiscCtrlReg_new(not_set_baud, inv_clock, baud_div,
                                     gate_block, mmen)
          IN  /\ call' = [op |-> "misc_ctrl", not_set_baud |-> not_set_baud,
                          inv_clock |-> inv_clock, baud_div |-> baud_div,
                          gate_block |-> gate_block, mmen |-> mmen]
              /\ ret' = IF new.ok
                        THEN [ok |-> TRUE, misc |-> new.val,
                              bytes |-> pack(new.val)]
                        ELSE [ok |-> FALSE, error |-> new.val]
    /\ UNCHANGED <<pll, pll_init>>
    /\ UNCHANGED <<counterVars, lazyVars, haltVars>>

\* arguments of set_i2c
I2cBuses == {None, Some("Bottom"), Some("Middle")}

\* self.set_i2c(i2c_bus), and set_i2c(None) after it
SetI2c ==
    /\ call = NoCall
    /\ \E self \in MiscCtrlRegs, i2c_bus \in I2cBuses :
          /\ call' = [op |-> "set_i2c", self |-> self, i2c_bus |-> i2c_bus]
          /\ ret' = [after |-> set_i2c(self, i2c_bus),
                     then_none |-> set_i2c(set_i2c(self, i2c_bus), None)]
    /\ UNCHANGED <<pll, pll_init>>
    /\ UNCHANGED <<counterVars, lazyVars, haltVars>>

\* raw register values read from a chip, as 4 bytes
RawBytes ==
    {<<b1, b2, b3, b4>> :
        b1 \in {0, 19, 64, 255}, b2 \in {0, 1, 32, 33, 134, 135, 255},
        b3 \in {0, 64, 90, 128, 144, 255},
        b4 \in {0, 4, 32, 64, 96, 128, 224, 255}}

\* registers with enum fields
EnumRegisters == {"GetAddressReg", "MiscCtrlReg"}

\* unpack of a raw value, and from_reg of it
Decode ==
    /\ call = NoCall
    /\ \E ty \in EnumRegisters, raw \in RawBytes :
          LET r == unpack(ty, raw)
          IN  /\ call' = [op |-> "decode", ty |-> ty, raw |-> raw]
              /\ ret' = [decoded |-> r.ok,
                         reg_value |-> r.val,
                         from_reg_panicked |->
                             from_reg(ty, from_be_bytes(raw)).panicked]
    /\ UNCHANGED <<pll, pll_init>>
    /\ UNCHANGED <<counterVars, lazyVars, haltVars>>

CodecNext ==
    \/ RegRoundTrip
    \/ Calc
    \/ ToHwAddr
    \/ SetConfig
    \/ GetStatus
    \/ SetChipAddress
    \/ InactivateFromChain
    \/ CoreAddressNew
    \/ MidstateCountNew
    \/ TicketMaskNew
    \/ MiscCtrlNew
    \/ SetI2c
    \/ Decode

SpecCodec == CodecInit /\ [][CodecNext]_vars

(***************************************************************************)
(* halt.rs: the state machine.  A client is a task holding the             *)
(* NotifyReceiver that register_client returned; send_halt_internal sends  *)
(* it a DoneSender and waits for the Done it confirms with.  done is where *)
(* the DoneSender of a client is: "none" (not made), "sent" (in the notify *)
(* channel), "held" (the client took it), "confirmed", "dropped" (dropped  *)
(* unconfirmed, by the client or with the channel it was in) or "panicked" *)
(* (confirm found the other end gone).                                     *)
(***************************************************************************)
MaxClients == 2     \* clients registered
MaxHooks == 2       \* exit hooks added

Event(ev, id) == [ev |-> ev, id |-> id]

HaltInit ==
    /\ CountersIdle
    /\ CodecIdle

HaltFrame == UNCHANGED <<counterVars, codecVars, lazyVars>>

\* Sender::register_client
RegisterClient ==
    /\ Len(client) < MaxClients
    /\ client' = Append(client, [notify_rx |-> "open", done |-> "none"])
    /\ sender' = [sender EXCEPT !.clients = Append(@, Len(client) + 1)]
    /\ UNCHANGED <<halter, events>>
    /\ HaltFrame

\* exit hooks added so far
HooksAdded ==
    Len(sender.exit_hooks) + Len(halter.hooks)
        + Cardinality({i \in DOMAIN events : events[i].ev = "hook"})

\* Sender::add_exit_hook; the lock is taken for the whole loop over the hooks
AddExitHook ==
    /\ HooksAdded < MaxHooks
    /\ halter.pc # "hooks"
    /\ sender' = [sender EXCEPT !.exit_hooks = Append(@, HooksAdded + 1)]
    /\ UNCHANGED <<client, halter, events>>
    /\ HaltFrame

\* the task of client k ends or is dropped: its receiver is dropped, and
\* with it what is still in the channel
TaskEnds(k) ==
    /\ client[k].notify_rx = "open"
    /\ client' = [client EXCEPT ![k].notify_rx = "dropped",
                                ![k].done = IF @ = "sent" THEN "dropped" ELSE @]
    /\ UNCHANGED <<sender, halter, events>>
    /\ HaltFrame

\* NotifyReceiver::wait_for_halt returns Some(done_sender)
WaitForHalt(k) ==
    /\ client[k].notify_rx = "open"
    /\ client[k].done = "sent"
    /\ client' = [client EXCEPT ![k].notify_rx = "dropped", ![k].done = "held"]
    /\ UNCHANGED <<sender, halter, events>>
    /\ HaltFrame

\* DoneSender::confirm: the send fails, and expect panics, when
\* send_halt_internal waits for it no more
Confirm(k) ==
    /\ client[k].done = "held"
    /\ client' = [client EXCEPT ![k].done = IF halter.waiting = k
                                            THEN "confirmed" ELSE "panicked"]
    /\ UNCHANGED <<sender, halter, events>>
    /\ HaltFrame

\* the DoneSender is dropped without confirm
DropHandle(k) ==
    /\ client[k].done = "held"
    /\ client' = [client EXCEPT ![k].done = "dropped"]
    /\ UNCHANGED <<sender, halter, events>>
    /\ HaltFrame

\* a send_halt that hands out a handle whatever the state of the channel
send_halt_unchecked(c) == TRUE

\* NotifySender::send_halt returns Some: unbounded_send is ok while the
\* receiver is not dropped
send_halt(c) == c.notify_rx = "open"

\* send_halt_internal takes the list of clients
TakeClients ==
    /\ halter.pc = "idle"
    /\ halter' = [halter EXCEPT !.pc = "notify", !.clients = sender.clients]
    /\ sender' = [sender EXCEPT !.clients = <<>>]
    /\ UNCHANGED <<client, events>>
    /\ HaltFrame

\* the next client of the list is sent its notification, or is skipped
Notify ==
    /\ halter.pc = "notify"
    /\ halter.clients # <<>>
    /\ LET k == Head(halter.clients) IN
       IF send_halt(client[k])
       THEN /\ client' = [client EXCEPT ![k].done = "sent"]
            /\ halter' = [halter EXCEPT !.pc = "wait", !.waiting = k,
                                        !.clients = Tail(@)]
            /\ events' = Append(events, Event("notify", k))
       ELSE /\ halter' = [halter EXCEPT !.clients = Tail(@)]
            /\ events' = Append(events, Event("skip", k))
            /\ UNCHANGED client
    /\ UNCHANGED sender
    /\ HaltFrame

\* done_rx.next() returns Some(Done)
Confirmed ==
    /\ halter.pc = "wait"
    /\ client[halter.waiting].done = "confirmed"
    /\ halter' = [halter EXCEPT !.pc = "notify", !.waiting = 0]
    /\ events' = Append(events, Event("confirmed", halter.waiting))
    /\ UNCHANGED <<sender, client>>
    /\ HaltFrame

\* done_rx.next() returns None: the call returns Err(Halt) and drops the
\* clients left
HandleDropped ==
    /\ halter.pc = "wait"
    /\ client[halter.waiting].done = "dropped"
    /\ halter' = [halter EXCEPT !.pc = "err", !.waiting = 0, !.clients = <<>>]
    /\ events' = Append(events, Event("dropped_handle", halter.waiting))
    /\ UNCHANGED <<sender, client>>
    /\ HaltFrame

\* halt_timeout passes with nothing to read from done_rx
Timeout ==
    /\ halter.pc = "wait"
    /\ client[halter.waiting].done \in {"sent", "held"}
    /\ halter' = [halter EXCEPT !.pc = "err", !.waiting = 0, !.clients = <<>>]
    /\ events' = Append(events, Event("timeout", halter.waiting))
    /\ UNCHANGED <<sender, client>>
    /\ HaltFrame

\* the loop over the clients is over: the exit hooks are locked and drained
TakeHooks ==
    /\ halter.pc = "notify"
    /\ halter.clients = <<>>
    /\ halter' = [halter EXCEPT !.pc = "hooks", !.hooks = sender.exit_hooks]
    /\ sender' = [sender EXCEPT !.exit_hooks = <<>>]
    /\ UNCHANGED <<client, events>>
    /\ HaltFrame

\* hook.await
RunHook ==
    /\ halter.pc = "hooks"
    /\ halter.hooks # <<>>
    /\ halter' = [halter EXCEPT !.hooks = Tail(@)]
    /\ events' = Append(events, Event("hook", Head(halter.hooks)))
    /\ UNCHANGED <<sender, client>>
    /\ HaltFrame

\* Ok(())
ReturnOk ==
    /\ halter.pc = "hooks"
    /\ halter.hooks = <<>>
    /\ halter' = [halter EXCEPT !.pc = "ok"]
    /\ UNCHANGED <<sender, client, events>>
    /\ HaltFrame

HaltNext ==
    \/ RegisterClient
    \/ AddExitHook
    \/ \E k \in DOMAIN client : TaskEnds(k)
    \/ \E k \in DOMAIN client : WaitForHalt(k)
    \/ \E k \in DOMAIN client : Confirm(k)
    \/ \E k \in DOMAIN client : DropHandle(k)
    \/ TakeClients
    \/ Notify
    \/ Confirmed
    \/ HandleDropped
    \/ Timeout
    \/ TakeHooks
    \/ RunHook
    \/ ReturnOk

SpecHalt == HaltInit /\ [][HaltNext]_vars

(***************************************************************************)
(* Properties of the counters.                                             *)
(***************************************************************************)
RECURSIVE SumFn(_, _, _)
SumFn(f, lo, hi) ==
    IF lo > hi THEN 0
    ELSE IF lo = hi THEN f[lo]
    ELSE LET mid == (lo + hi) \div 2
         IN  SumFn(f, lo, mid) + SumFn(f, mid + 1, hi)

Cores == 0..(CORE_ADR_SPACE_SIZE - 1)

SumCoresValid(c) == SumFn([j \in Cores |-> c.core[j].valid], 0, CORE_ADR_SPACE_SIZE - 1)
SumCoresErrors(c) == SumFn([j \in Cores |-> c.core[j].errors], 0, CORE_ADR_SPACE_SIZE - 1)
SumChipsValid(hc) == SumFn([i \in DOMAIN hc.chip |-> hc.chip[i].valid], 1, Len(hc.chip))
SumChipsErrors(hc) == SumFn([i \in DOMAIN hc.chip |-> hc.chip[i].errors], 1, Len(hc.chip))

\* C2: in every reachable state the chain's valid (errors) is the sum of its
\* current chips' valid (errors), and each chip's is the sum over its 128 cores.
C2_SumsOfChildren ==
    /\ chain.valid = SumChipsValid(chain)
    /\ chain.errors = SumChipsErrors(chain)
    /\ \A i \in DOMAIN chain.chip :
          /\ chain.chip[i].valid = SumCoresValid(chain.chip[i])
          /\ chain.chip[i].errors = SumCoresErrors(chain.chip[i])

AddOps == {"add_valid", "add_error"}

C3_Step ==
    (last'.op \in AddOps /\ last'.chip < Len(chain.chip)) =>
        LET dv == IF last'.op = "add_valid" THEN chain.asic_difficulty ELSE 0
            de == IF last'.op = "add_error" THEN 1 ELSE 0
            c == last'.chip + 1
        IN  /\ chain'.valid = chain.valid + dv
            /\ chain'.errors = chain.errors + de
            /\ Len(chain'.chip) = Len(chain.chip)
            /\ \A i \in DOMAIN chain.chip :
                  /\ chain'.chip[i].valid =
                        chain.chip[i].valid + (IF i = c THEN dv ELSE 0)
                  /\ chain'.chip[i].errors =
                        chain.chip[i].errors + (IF i = c THEN de ELSE 0)
                  /\ \A j \in Cores :
                        /\ chain'.chip[i].core[j].valid =
                              chain.chip[i].core[j].valid
                              + (IF i = c /\ j = last'.core THEN dv ELSE 0)
                        /\ chain'.chip[i].core[j].errors =
                              chain.chip[i].core[j].errors
                              + (IF i = c /\ j = last'.core THEN de ELSE 0)

C4_Step ==
    (last'.op \in AddOps /\ last'.chip >= Len(chain.chip)) =>
        /\ chain' = chain
        /\ panicked' = FALSE

\* C4: add_valid and add_error with chip >= chip_count return without a panic
\* and leave the whole chain (counters, started, stopped, asic_difficulty, chip
\* count) as it was.
C4_OutOfRangeDiscarded == [][C4_Step]_vars

C4_Witness ==
    /\ last.op = "add_error"
    /\ last.chip >= last.pre_len
    /\ last.pre_len > 0
    /\ last.pre_valid > 0
    /\ chain.errors = 0

\* C5: between two resets no valid or errors counter of the chain, of chip i or
\* of core j of chip i is below a value it had before.
C5_NeverDecreases ==
    /\ chain.valid >= peak.valid
    /\ chain.errors >= peak.errors
    /\ \A i \in DOMAIN chain.chip :
          /\ chain.chip[i].valid >= peak.chip[i].valid
          /\ chain.chip[i].errors >= peak.chip[i].errors
          /\ \A j \in Cores :
                /\ chain.chip[i].core[j].valid >= peak.chip[i].core[j].valid
                /\ chain.chip[i].core[j].errors >= peak.chip[i].core[j].errors

\* what snapshot() promises; only_fresh limits the comparison of two snapshots'
\* durations to snapshots with no reset of the live chain between them
C6_Step(only_fresh) ==
    /\ \A i \in DOMAIN snaps : snaps'[i] = snaps[i]
    /\ chain.stopped = None
    /\ \A i \in DOMAIN snaps :
          /\ snaps[i].stopped # None
          /\ duration(snaps[i], now) = snaps[i].stopped[1] - snaps[i].started
          /\ duration(snaps[i], now + 1) = duration(snaps[i], now)
    /\ Len(snaps') > Len(snaps) =>
          LET s == snaps'[Len(snaps')] IN
          /\ Len(snaps') = Len(snaps) + 1
          /\ s.chip = chain.chip
          /\ s.valid = chain.valid
          /\ s.errors = chain.errors
          /\ s.started = chain.started
          /\ s.asic_difficulty = chain.asic_difficulty
          /\ s.stopped = Some(now')
          /\ chain' = chain
          /\ \A i \in DOMAIN snaps :
                (snaps[i].stopped # s.stopped /\ (only_fresh => snap_fresh[i])) =>
                    duration(s, now') - duration(snaps[i], now')
                        = s.stopped[1] - snaps[i].stopped[1]

\* C6 (amended): snapshot() returns a copy with the live chain's counters and
\* stopped fixed to the snapshot time, the live chain is unchanged, no later
\* operation changes an earlier snapshot, a snapshot's duration() is the
\* constant stopped - started, and the durations of two snapshots differ by the
\* time elapsed between them when the live chain was not reset in between.
C6_Snapshot == [][C6_Step(TRUE)]_vars

\* C6 as stated: the durations of any two snapshots taken at different times
\* differ by the time elapsed between them.
C6_Original == [][C6_Step(FALSE)]_vars

C6_Witness ==
    /\ last.op = "snapshot"
    /\ Len(snaps) = 2
    /\ snap_fresh[1]
    /\ snaps[1].stopped # snaps[2].stopped
    /\ snaps[2].valid > snaps[1].valid
    /\ chain.stopped = None

C7_Step ==
    last'.op = "reset" =>
        /\ chain'.valid = 0
        /\ chain'.errors = 0
        /\ \A i \in DOMAIN chain'.chip :
              /\ chain'.chip[i].valid = 0
              /\ chain'.chip[i].errors = 0
              /\ DOMAIN chain'.chip[i].core = Cores
              /\ \A j \in Cores :
                    /\ chain'.chip[i].core[j].valid = 0
                    /\ chain'.chip[i].core[j].errors = 0
        /\ chain'.started = now'
        /\ Len(chain'.chip) = Len(chain.chip)
        /\ chain'.asic_difficulty = chain.asic_difficulty

\* C7: after reset() valid and errors are 0 at the chain, at every chip and at
\* every core, started is the current time, and the chip count and
\* asic_difficulty are unchanged.
C7_ResetZeroes == [][C7_Step]_vars

C7_Witness ==
    /\ last.op = "reset"
    /\ last.pre_valid > 0
    /\ last.pre_errors > 0
    /\ last.pre_len > 0
    /\ chain.started > 0
    /\ chain.started = now

Accepts(hc, c) ==
    /\ add_valid(hc, [chip |-> c, core |-> 0]) # hc
    /\ add_error(hc, [chip |-> c, core |-> 0]) # hc

ChipZero(c) ==
    /\ c.valid = 0
    /\ c.errors = 0
    /\ DOMAIN c.core = Cores
    /\ \A j \in Cores : c.core[j].valid = 0 /\ c.core[j].errors = 0

C8_Step ==
    last'.op = "set_chip_count" =>
        LET n == last'.n
            old == Len(chain.chip)
        IN  /\ Len(chain'.chip) = n
            /\ chip_count(chain') = n
            /\ \A i \in 1..n :
                  IF i <= old
                  THEN chain'.chip[i] = chain.chip[i]
                  ELSE ChipZero(chain'.chip[i])
            /\ \A c \in 0..63 : Accepts(chain', c) <=> c < n

\* C8: set_chip_count(n) makes the chip array n long, keeps the chips below
\* min(old, n), adds the chips in [old, n) zeroed and drops the chips from n
\* on; afterwards chip_count() is n and add_valid/add_error accept exactly the
\* chip indices below n.
C8_SetChipCount == [][C8_Step]_vars

C8_Witness ==
    /\ last.op = "set_chip_count"
    /\ last.n > last.pre_len
    /\ last.pre_len > 0
    /\ chain.chip[1].valid > 0
    /\ Len(chain.chip) = last.n

(***************************************************************************)
(* Properties of the registers.                                            *)
(***************************************************************************)
\* C1: every register value x packs to exactly 4 bytes and
\* from_reg(to_reg(x)) = x.
C1_RoundTrip ==
    call.op = "reg_round_trip" =>
        /\ Len(ret.bytes) = 4
        /\ \A k \in 1..4 : ret.bytes[k] \in 0..255
        /\ ret.reg = from_be_bytes(ret.bytes)
        /\ ret.back = call.x

(***************************************************************************)
(* Properties of PllReg::calc.                                             *)
(***************************************************************************)
\* a - b for a >= b, limb by limb with borrow
LimbsSub(a, b) ==
    LET d1 == a[1] - b[1]
        d2 == a[2] - b[2] - (IF d1 < 0 THEN 1 ELSE 0)
        d3 == a[3] - b[3] - (IF d2 < 0 THEN 1 ELSE 0)
        d4 == a[4] - b[4] - (IF d3 < 0 THEN 1 ELSE 0)
        d5 == a[5] - b[5] - (IF d4 < 0 THEN 1 ELSE 0)
    IN  <<d1 % 65536, d2 % 65536, d3 % 65536, d4 % 65536, d5>>

\* q = floor(xtal * fbdiv / (refdiv * postdiv1 * postdiv2)): the remainder
\* xtal * fbdiv - q * refdiv * postdiv1 * postdiv2 is in 0..(divisor - 1)
IsFloor(q, reg, xtal_freq) ==
    LET rest == LimbsSub(LimbsMul(xtal_freq, reg.fbdiv),
                         LimbsMul(LimbsMul(LimbsMul(q, reg.refdiv),
                                           reg.postdiv1),
                                  reg.postdiv2))
    IN  /\ rest[5] = 0 /\ rest[4] = 0 /\ rest[3] = 0
        /\ rest[2] < 256
        /\ rest[2] * 65536 + rest[1] < reg.refdiv * reg.postdiv1 * reg.postdiv2

\* C13: calc(xtal) returns floor(xtal * fbdiv / (refdiv * postdiv1 *
\* postdiv2)) for every tuple of non-zero dividers and every crystal
\* frequency, nothing overflowing; 25 MHz with (0x68, 2, 2, 1) gives
\* 650_000_000 and the register value 0x00680221.
C13_CalcFloor ==
    call.op = "calc" =>
        /\ ~ret.panicked
        /\ IsFloor(ret.value, call.reg, call.xtal_freq)
        /\ (call.xtal_freq = <<30784, 381, 0, 0, 0>>
               /\ call.reg = PllReg_value(104, 2, 2, 1)) =>
              /\ ret.value = <<13952, 9918, 0, 0, 0>>
              /\ ret.reg = U32(104, 545)

(***************************************************************************)
(* Properties of the PLL lookup.                                           *)
(***************************************************************************)
LookupDone == call.op = "lookup_freq" /\ pll # None

Freqs(plls) == {plls[i].frequency : i \in DOMAIN plls}

\* C9: for a target between the table's lowest and highest frequency,
\* lookup_freq returns a table entry at minimal distance from the target over
\* the whole table (so an exact match returns itself), the lower one of two
\* equally distant entries; 1_081_250_000 -> 1_075_000_000,
\* 1_081_250_001 -> 1_087_500_000, 216_000_000 -> 216_071_428.
C9_NearestMatch ==
    LookupDone =>
        LET plls == pll[1]
            t == call.target
        IN  (plls[1].frequency <= t /\ t <= plls[Len(plls)].frequency) =>
                /\ ret.ok
                /\ \E i \in DOMAIN plls : plls[i] = ret.val
                /\ \A f \in Freqs(plls) :
                      /\ distance(ret.val.frequency, t) <= distance(f, t)
                      /\ distance(ret.val.frequency, t) = distance(f, t)
                            => ret.val.frequency <= f
                /\ t \in Freqs(plls) => ret.val.frequency = t
                /\ t = 1081250000 => ret.val.frequency = 1075000000
                /\ t = 1081250001 => ret.val.frequency = 1087500000
                /\ t = 216000000 => ret.val.frequency = 216071428

C9_Witness ==
    /\ LookupDone
    /\ call.target = 1081250000
    /\ ret.ok
    /\ ret.val.frequency = 1075000000
    /\ 1087500000 \in Freqs(pll[1])

\* C10: lookup_freq fails, with a PLL error, exactly when the target is below
\* the lowest or above the highest table frequency; these are 100_000_000 and
\* 1_200_000_000, which are found as themselves, while 0, 99_999_999 and
\* 1_200_000_001 fail.
C10_OutOfRange ==
    LookupDone =>
        LET plls == pll[1]
            t == call.target
            lowest == plls[1].frequency
            highest == plls[Len(plls)].frequency
        IN  /\ ~ret.ok <=> (t < lowest \/ t > highest)
            /\ ~ret.ok => ret.val = "PLL"
            /\ lowest = 100000000
            /\ highest = 1200000000
            /\ t \in {100000000, 1200000000} => ret.ok /\ ret.val.frequency = t
            /\ t \in {0, 99999999, 1200000001} => ~ret.ok

C10_Witness ==
    /\ LookupDone
    /\ call.target = 1200000001
    /\ ~ret.ok
    /\ ret.val = "PLL"

(***************************************************************************)
(* Properties of the PLL table.                                            *)
(***************************************************************************)
\* the MHz bin a frequency rounds to: floor((f + 500_000) / 1_000_000)
BinOf(f) == (f + 500000) \div BIN_SIZE_HZ

\* C11: the table built by precompute_pll_table is strictly ascending by
\* frequency, every entry rounds to a MHz bin in 100..1200, and no two
\* entries round to the same bin.
C11_TableShape ==
    pll # None =>
        LET plls == pll[1] IN
        /\ \A i \in 1..(Len(plls) - 1) :
              /\ plls[i].frequency < plls[i + 1].frequency
              /\ BinOf(plls[i].frequency) < BinOf(plls[i + 1].frequency)
        /\ \A i \in DOMAIN plls :
              /\ BinOf(plls[i].frequency) >= 100
              /\ BinOf(plls[i].frequency) <= 1200
        /\ Len(plls) <= 1101

C11_Witness ==
    /\ pll # None
    /\ Len(pll[1]) > 100
    /\ \E i \in 1..(Len(pll[1]) - 1) :
          BinOf(pll[1][i + 1].frequency) = BinOf(pll[1][i].frequency) + 1

\* C12: a tuple of the enumeration that rounds to a bin b in 100..1200 finds
\* an entry in the table for b; the entry's tuple is an enumerated one that
\* rounds to b, it is at least as close to b MHz as the tuple, and when they
\* are equally close the entry's tuple comes no later in the loop order.
C12_BestFirst ==
    (call.op = "try_divider" /\ ret.bin_no >= 100 /\ ret.bin_no <= 1200) =>
        LET frequency == ret.frequency.mhz * 1000000 + ret.frequency.hz
            bin_freq == ret.bin_no * BIN_SIZE_HZ
            hits == {i \in DOMAIN pll_init :
                        BinOf(pll_init[i].frequency) = ret.bin_no}
        IN  /\ Cardinality(hits) = 1
            /\ \A i \in hits :
                  LET e == pll_init[i] IN
                  /\ e.reg.fbdiv \in 32..127
                  /\ e.reg.refdiv \in 1..63
                  /\ e.reg.postdiv1 \in 1..7
                  /\ e.reg.postdiv2 \in 1..e.reg.postdiv1
                  /\ calc(e.reg, CHIP_OSC_CLK_HZ) = Wide(e.frequency)
                  /\ distance(bin_freq, e.frequency)
                        <= distance(bin_freq, frequency)
                  /\ distance(bin_freq, e.frequency)
                        = distance(bin_freq, frequency)
                        => LoopOrder(e.reg) <= LoopOrder(call.reg)

\* a later tuple with the very frequency of the entry of its bin
C12_Witness ==
    /\ call.op = "try_divider"
    /\ ret.bin_no = 800
    /\ call.reg = PllReg(64, 2, 1, 1)
    /\ \E i \in DOMAIN pll_init :
          /\ pll_init[i].frequency = 800000000
          /\ pll_init[i].reg = PllReg(32, 1, 1, 1)

(***************************************************************************)
(* Properties of the shared PLL table.                                     *)
(***************************************************************************)
\* threads that hold a reference to the table
Holding == {t \in DOMAIN thread : thread[t].pc \in {"search", "done"}}

C14_State ==
    /\ builds <= 1
    /\ pll # None => (once = "complete" /\ pll = Some(pll_init))
    /\ \A t \in Holding : thread[t].view = Some(pll_init)
    /\ \A t, u \in Holding : thread[t].view = thread[u].view
    /\ \A t \in DOMAIN thread :
          thread[t].pc = "done" =>
              thread[t].result = lookup_freq(pll_init, thread[t].target)

\* C14: whatever the threads calling lookup_freq do, the initializer of the
\* table is started at most once, a thread that finds it running stays
\* parked until the cell is complete, a thread only ever holds the whole
\* table, and all threads hold the same one.
C14_BuiltOnce ==
    [][/\ C14_State
       /\ C14_State'
       /\ \A t \in DOMAIN thread :
             (thread[t].pc = "wait" /\ once' # "complete") =>
                 thread'[t].pc = "wait"
       /\ \A t \in DOMAIN thread :
             (thread[t].pc # "get" /\ thread'[t].pc = "get") =>
                 once' = "complete"]_vars

\* one thread built the table while another one waited for it, and both
\* have their answer
C14_Witness ==
    \E t, u \in DOMAIN thread :
        /\ thread[t].pc = "done" /\ thread[t].built
        /\ thread[u].pc = "done" /\ thread[u].waited
        /\ builds = 1

(***************************************************************************)
(* Properties of the chip addresses and the command frames.                *)
(***************************************************************************)
\* a command was built and packed into a frame
FrameBuilt == call.op = "cmd" /\ ~ret.panicked

HeaderSize == 3

\* C15 as stated: the length byte of a frame is the length of what follows
\* the 3-byte header, plus the 1 byte of the checksum.
C15_Original ==
    FrameBuilt => ret.frame[2] = (Len(ret.frame) - HeaderSize) + Crc5Size

\* C15 (amended): the length byte of a frame is the length of the whole
\* serialized command, its 3-byte header included, plus the 1 byte of the
\* checksum: 9 for SetConfig, 5 for GetStatus, SetChipAddress and
\* InactivateFromChain.
C15_LengthByte ==
    FrameBuilt =>
        /\ ret.frame[2] = Len(ret.frame) + Crc5Size
        /\ ret.frame[2] = ret.cmd.header.length
        /\ ret.frame[2] = IF call.cmd = "SetConfig" THEN 9 ELSE 5

C15_Witness ==
    /\ FrameBuilt
    /\ call.cmd = "SetConfig"
    /\ Len(ret.frame) = 8
    /\ ret.frame[2] = 9

Opcode(cmd_name) ==
    IF cmd_name = "SetConfig" THEN 8
    ELSE IF cmd_name = "GetStatus" THEN 4
    ELSE IF cmd_name = "SetChipAddress" THEN 1
    ELSE 5

\* C16: the first byte of a frame is opcode | broadcast << 4 | 0x02 << 5,
\* the broadcast bit being set exactly for ChipAddress::All; the third byte
\* is the hardware address of the chip, 0 for All and 4 * i for One(i);
\* SetConfig goes on with the register number and the value, most
\* significant byte first: SetConfig(0x0C, 0x00680221) at chip 9 is
\* 48 09 24 0C 00 68 02 21.
C16_FrameLayout ==
    FrameBuilt =>
        /\ ret.frame[1] = Opcode(call.cmd)
                            + 16 * Bit(call.chip_address = ChipAddress_All)
                            + 64
        /\ call.chip_address = ChipAddress_All => ret.frame[3] = 0
        /\ call.chip_address # ChipAddress_All =>
              /\ ret.frame[3] % 4 = 0
              /\ ret.frame[3] \div 4 = call.chip_address.x
        /\ call.cmd = "SetConfig" =>
              /\ Len(ret.frame) = 8
              /\ ret.frame[4] = call.register
              /\ ret.frame[5] * 256 + ret.frame[6] = call.value.hi
              /\ ret.frame[7] * 256 + ret.frame[8] = call.value.lo
        /\ (/\ call.cmd = "SetConfig"
            /\ call.chip_address = ChipAddress_One(9)
            /\ call.register = 12
            /\ call.value = U32(104, 545)) =>
              ret.frame = <<72, 9, 36, 12, 0, 104, 2, 33>>

\* C17: to_hw_addr gives 0 for All and 4 * i for One(i) with i in 0..63, and
\* panics for every One(i) with i >= 64; is_broadcast is true exactly for All.
C17_ToHwAddr ==
    call.op = "to_hw_addr" =>
        /\ ret.is_broadcast <=> call.chip_address = ChipAddress_All
        /\ call.chip_address = ChipAddress_All =>
              (~ret.panicked /\ ret.hw_addr = 0)
        /\ call.chip_address # ChipAddress_All =>
              IF call.chip_address.x <= 63
              THEN ~ret.panicked /\ ret.hw_addr = call.chip_address.x * 4
              ELSE ret.panicked

\* what C19 says of InactivateFromChainCmd::new, of SetChipAddressCmd::new
\* on All and of the frames it returns for One(i), i <= 63
C19_Frames ==
    /\ (call.op = "cmd" /\ call.cmd = "SetChipAddress"
          /\ call.chip_address = ChipAddress_All) => ret.panicked
    /\ (FrameBuilt /\ call.cmd = "SetChipAddress"
          /\ call.chip_address.x <= 63) =>
          /\ (ret.frame[1] \div 16) % 2 = 0
          /\ ret.frame = <<65, 5, call.chip_address.x * 4, 0>>
          /\ call.chip_address = ChipAddress_One(1) =>
                ret.frame = <<65, 5, 4, 0>>
    /\ (call.op = "cmd" /\ call.cmd = "InactivateFromChain") =>
          /\ ~ret.panicked
          /\ (ret.frame[1] \div 16) % 2 = 1
          /\ ret.frame = <<85, 5, 0, 0>>

\* C19 as stated: SetChipAddressCmd::new panics on ChipAddress::All and
\* returns a frame, broadcast bit clear, with the hardware address of the
\* target for every other address; InactivateFromChainCmd::new always
\* returns the broadcast frame 55 05 00 00.
C19_Original ==
    /\ C19_Frames
    /\ (call.op = "cmd" /\ call.cmd = "SetChipAddress"
          /\ call.chip_address # ChipAddress_All) => ~ret.panicked

\* C19 (amended): SetChipAddressCmd::new panics on ChipAddress::All and
\* returns a frame, broadcast bit clear, with the hardware address 4 * i
\* for every One(i) with i <= 63 (chip 1: 41 05 04 00);
\* InactivateFromChainCmd::new always returns the broadcast frame
\* 55 05 00 00.
C19_AddressCommands ==
    /\ C19_Frames
    /\ (call.op = "cmd" /\ call.cmd = "SetChipAddress"
          /\ call.chip_address # ChipAddress_All
          /\ call.chip_address.x <= 63) => ~ret.panicked

C19_Witness ==
    /\ call.op = "cmd"
    /\ call.cmd = "SetChipAddress"
    /\ call.chip_address = ChipAddress_All
    /\ ret.panicked


(***************************************************************************)
(* Properties of the nonce decoder and of the midstate count.              *)
(***************************************************************************)
\* C18: for every nonce n, CoreAddress::new(n) is chip = (n >> 2) & 0x3F and
\* core = (n >> 24) & 0x7F, so chip < 64 and core < 128, and add_valid and
\* add_error index the 128 cores of a chip within bounds with it: an address
\* on the chain is counted, one beyond it is ignored (0xFFFFFFFF is {63, 127},
\* 0x2A105D5D is {23, 42}).
C18_CoreAddress ==
    call.op = "core_address" =>
        /\ ret.addr.chip \in 0..63
        /\ ret.addr.core \in 0..(CORE_ADR_SPACE_SIZE - 1)
        /\ (call.nonce.lo % 256) - 4 * ret.addr.chip \in 0..3
        /\ (call.nonce.hi % 32768) - 256 * ret.addr.core \in 0..255
        /\ ~ret.index_panics
        /\ ret.counted = Bit(ret.addr.chip < call.chip_count)
        /\ ret.total = ret.counted
        /\ call.nonce = U32(65535, 65535) =>
              ret.addr = [chip |-> 63, core |-> 127]
        /\ call.nonce = U32(10768, 23901) =>
              ret.addr = [chip |-> 23, core |-> 42]

C18_Witness ==
    /\ call.op = "core_address"
    /\ call.nonce = U32(65535, 65535)
    /\ call.chip_count = 64
    /\ ret.addr = [chip |-> 63, core |-> 127]
    /\ ret.counted = 1

\* C20: MidstateCount::new(count) returns exactly for count 1, 2 and 4 and
\* panics for every other count; of the value it returns for c, to_count is
\* c, to_bits is log2(c), to_mask is c - 1, and to_reg is ONE, TWO or FOUR
\* for 1, 2 or 4, never its panic.
C20_MidstateCount ==
    call.op = "midstate_count" =>
        /\ ret.panicked <=> call.count \notin {1, 2, 4}
        /\ ~ret.panicked =>
              /\ ret.midstates = call.count
              /\ ret.bits = (CHOOSE b \in 0..2 : 2 ^ b = call.count)
              /\ ret.mask = call.count - 1
              /\ ~ret.reg_panicked
              /\ ret.reg = (IF call.count = 1 THEN "ONE"
                            ELSE IF call.count = 2 THEN "TWO" ELSE "FOUR")

C20_Witness ==
    /\ call.op = "midstate_count"
    /\ call.count = 4
    /\ ~ret.panicked
    /\ ret.mask = 3


(***************************************************************************)
(* Properties of the register constructors.                                *)
(***************************************************************************)
\* the difficulty of the call is 2^k
IsPow2(k) ==
    \/ k <= 15 /\ call.difficulty = U32(0, 2 ^ k)
    \/ k >= 16 /\ call.difficulty = U32(2 ^ (k - 16), 0)

\* C21: TicketMaskReg::new(difficulty) returns an error, without a panic,
\* exactly when difficulty is 0 or no power of two, and a register for every
\* power of two from 1 to 2^31: new(0) and new(2047) fail, new(1) and
\* new(2048) succeed.
C21_TicketMaskNew ==
    call.op = "ticket_mask" =>
        /\ ret.ok <=> \E k \in 0..31 : IsPow2(k)
        /\ ~ret.ok => ret.error = "General"
        /\ call.difficulty \in {U32(0, 0), U32(0, 2047)} => ~ret.ok
        /\ call.difficulty \in {U32(0, 1), U32(0, 2048)} => ret.ok

C21_Witness ==
    /\ call.op = "ticket_mask"
    /\ call.difficulty = U32(0, 2047)
    /\ ~ret.ok

\* the byte whose k low bits are set, with its bit order reversed: the k top
\* bits of the byte
TopBits(k) == 256 - 2 ^ (8 - k)

\* the bits of 2^k - 1 that fall into the byte of weight 256^i, reversed
ReversedByte(k, i) ==
    IF k >= 8 * (i + 1) THEN 255
    ELSE IF k <= 8 * i THEN 0
    ELSE TopBits(k - 8 * i)

C23_MiscCtrlNew ==
    call.op = "misc_ctrl" =>
        /\ ret.ok <=> call.baud_div <= 26
        /\ ~ret.ok => ret.error = "BaudRate"
        /\ ret.ok =>
              /\ ret.misc.not_set_baud = call.not_set_baud
              /\ ret.misc.inv_clock = call.inv_clock
              /\ ret.misc.baud_div = call.baud_div
              /\ ret.misc.gate_block = call.gate_block
              /\ ret.misc.mmen = call.mmen
              /\ ret.misc.tfs = "HashDoing"
              /\ ret.misc.rfs = "OpenDrain"
              /\ ret.misc.i2c_bus = "Bottom"
        /\ (/\ call.not_set_baud /\ call.inv_clock /\ call.gate_block
            /\ call.mmen /\ call.baud_div = 26) =>
              ret.ok /\ ret.bytes = <<64, 32, 154, 128>>

C23_Witness ==
    /\ call.op = "misc_ctrl"
    /\ call.baud_div = 26
    /\ ret.ok
    /\ ret.bytes = <<64, 32, 154, 128>>

\* C24: set_i2c leaves inv_clock, baud_div and mmen as they were; with
\* Some(bus) it sets tfs = SCL0, rfs = SDA0 and i2c_bus = bus, with None
\* tfs = HashDoing, rfs = OpenDrain and i2c_bus = Bottom, so set_i2c(None)
\* after set_i2c(Some(bus)) puts the pin functions back to hashing.
C24_SetI2c ==
    call.op = "set_i2c" =>
        /\ ret.after.inv_clock = call.self.inv_clock
        /\ ret.after.baud_div = call.self.baud_div
        /\ ret.after.mmen = call.self.mmen
        /\ call.i2c_bus # None =>
              /\ ret.after.tfs = "SCL0"
              /\ ret.after.rfs = "SDA0"
              /\ ret.after.i2c_bus = call.i2c_bus[1]
        /\ call.i2c_bus = None =>
              /\ ret.after.tfs = "HashDoing"
              /\ ret.after.rfs = "OpenDrain"
              /\ ret.after.i2c_bus = "Bottom"
        /\ ret.then_none.tfs = "HashDoing"
        /\ ret.then_none.rfs = "OpenDrain"
        /\ ret.then_none.i2c_bus = "Bottom"
        /\ ret.then_none.inv_clock = call.self.inv_clock
        /\ ret.then_none.baud_div = call.self.baud_div
        /\ ret.then_none.mmen = call.self.mmen

C24_Witness ==
    /\ call.op = "set_i2c"
    /\ call.i2c_bus = Some("Middle")
    /\ call.self.tfs = "UartTransmitting"
    /\ ret.after.tfs = "SCL0"
    /\ ret.after.i2c_bus = "Middle"
    /\ ret.then_none.tfs = "HashDoing"

\* C25: set_i2c clears not_set_baud and gate_block, whatever they were and
\* whatever the bus.
C25_FlagsCleared ==
    call.op = "set_i2c" =>
        /\ ~ret.after.not_set_baud
        /\ ~ret.after.gate_block


\* C26: decoding a raw register value into a register with enum fields never
\* fails: a GetAddressReg whose chip revision is not 0x1387 unpacks to the
\* catch-all variant carrying the raw 16 bits (0x1386 gives CatchAll(0x1386)),
\* and every bit pattern of the TF, RF and I2C bus selectors of a MiscCtrlReg
\* decodes to the variant of that value.
C26_DecodeTotal ==
    call.op = "decode" =>
        /\ ret.decoded
        /\ ~ret.from_reg_panicked
        /\ call.ty = "GetAddressReg" =>
              LET raw16 == call.raw[1] * 256 + call.raw[2]
              IN  /\ ret.reg_value.chip_rev.v = raw16
                  /\ ret.reg_value.chip_rev.tag =
                        (IF raw16 = Bm1387 THEN "Enum" ELSE "CatchAll")
                  /\ raw16 = 4998 =>
                        ret.reg_value.chip_rev = [tag |-> "CatchAll", v |-> 4998]
        /\ call.ty = "MiscCtrlReg" =>
              /\ TfSelector_to_primitive(ret.reg_value.tfs) =
                    (call.raw[4] \div 32) % 4
              /\ RfSelector_to_primitive(ret.reg_value.rfs) =
                    (call.raw[3] \div 64) % 2
              /\ I2cBusSelect_to_primitive(ret.reg_value.i2c_bus) =
                    call.raw[2] % 2

C26_Witness ==
    /\ call.op = "decode"
    /\ call.ty = "GetAddressReg"
    /\ call.raw = <<19, 134, 144, 4>>
    /\ ret.decoded
    /\ ret.reg_value.chip_rev = [tag |-> "CatchAll", v |-> 4998]


(***************************************************************************)
(* Properties of the table entries as register values.                     *)
(***************************************************************************)
\* the entry survives being written to the chip and read back
ReadsBack(e) ==
    LET reg == PllReg_value(e.reg.fbdiv, e.reg.refdiv, e.reg.postdiv1,
                            e.reg.postdiv2)
        back == from_reg("PllReg", to_reg(reg))
    IN  /\ ~back.panicked
        /\ back.value = reg
        /\ calc(back.value, CHIP_OSC_CLK_HZ) = Wide(e.frequency)
        /\ e.reg.fbdiv < 256
        /\ e.reg.refdiv < 16
        /\ e.reg.postdiv1 < 16
        /\ e.reg.postdiv2 < 16

\* C29: for every entry of the precomputed table, and so for every result
\* of lookup_freq, PllReg::from_reg(entry.reg.to_reg()) has the dividers of
\* the entry and its calc(25_000_000) is entry.frequency; every divider
\* fits its register field (fbdiv 8 bits, the others 4 bits each).
C29_TableRoundTrip ==
    /\ pll # None => \A i \in DOMAIN pll[1] : ReadsBack(pll[1][i])
    /\ (call.op = "lookup_freq" /\ ret.ok) => ReadsBack(ret.val)


(***************************************************************************)
(* Properties of the clock readings of a HashChain.                        *)
(***************************************************************************)
\* stopped, when set, is not earlier than started
WellTimed(hc) == hc.stopped # None => hc.stopped[1] >= hc.started

\* C30: for every HashChain reached by new, add_valid, add_error, reset,
\* set_chip_count and snapshot, these applied to a snapshot included,
\* stopped, when set, is never earlier than started, so duration() is a
\* non-negative interval.
C30_StoppedAfterStarted ==
    /\ WellTimed(chain)
    /\ duration(chain, now) >= 0
    /\ \A i \in DOMAIN snaps :
          /\ WellTimed(snaps[i])
          /\ duration(snaps[i], now) >= 0


(***************************************************************************)
(* Properties of the halt notification.                                    *)
(***************************************************************************)
\* the step makes send_halt_internal do something to client or hook id
Does(ev, id) ==
    /\ Len(events') = Len(events) + 1
    /\ events'[Len(events')] = Event(ev, id)

\* send_halt_internal is through with client k: it confirmed, or was
\* found ended
Halted(k) ==
    \E i \in DOMAIN events :
        events[i] \in {Event("confirmed", k), Event("skip", k)}

\* send_halt_internal has failed
Failed ==
    \E i \in DOMAIN events : events[i].ev \in {"timeout", "dropped_handle"}

\* the last thing send_halt_internal did was to notify client k
JustNotified(k) ==
    /\ events # <<>>
    /\ events[Len(events)] = Event("notify", k)

C27_Step ==
    /\ \A k \in DOMAIN client :
          /\ (Does("notify", k) \/ Does("skip", k)) =>
                /\ \A j \in 1..(k - 1) : Halted(j)
                /\ \A i \in DOMAIN events :
                      events[i].ev \in {"notify", "skip"} => events[i].id < k
                /\ \A j \in DOMAIN client : client[j].done \notin {"sent", "held"}
                /\ ~Failed
          /\ Does("notify", k) => client[k].notify_rx = "open"
          /\ Does("skip", k) =>
                /\ client[k].notify_rx = "dropped"
                /\ client'[k].done = "none"
                /\ halter'.pc = "notify"
          /\ Does("confirmed", k) =>
                /\ JustNotified(k)
                /\ client[k].done = "confirmed"
          /\ Does("dropped_handle", k) =>
                /\ JustNotified(k)
                /\ client[k].done = "dropped"
                /\ halter'.pc = "err"
          /\ Does("timeout", k) =>
                /\ JustNotified(k)
                /\ client[k].done \notin {"confirmed", "dropped"}
                /\ halter'.pc = "err"
    /\ halter.pc = "wait" =>
          /\ JustNotified(halter.waiting)
          /\ events' # events => halter'.pc \in {"notify", "err"}
    /\ halter.pc = "err" => (events' = events /\ halter' = halter)
    /\ Failed <=> halter.pc = "err"

\* C27: send_halt_internal notifies the clients one at a time in the order
\* they registered: a client is notified only when every client before it
\* has confirmed or was found ended; a client whose receiver is dropped is
\* skipped without error; when a client lets halt_timeout pass or drops its
\* handle the call returns the Halt error and notifies no later client.
C27_OneByOne == [][C27_Step]_vars

C27_Witness ==
    /\ Len(events) = 3
    /\ events[1] = Event("skip", 1)
    /\ events[2] = Event("notify", 2)
    /\ events[3] = Event("timeout", 2)
    /\ halter.pc = "err"

C28_Step ==
    \A h \in 1..MaxHooks :
        Does("hook", h) =>
            /\ \A k \in DOMAIN client : Halted(k)
            /\ \A i \in DOMAIN events :
                  events[i].ev = "hook" => events[i].id < h
            /\ \A g \in 1..(h - 1) : Event("hook", g) \in {events[i] : i \in DOMAIN events}
            /\ ~Failed

\* C28: an exit hook runs only when every registered client has been
\* halted (it confirmed or was found ended); the hooks run in the order
\* they were added, each at most once, and none runs when halting a client
\* failed.
C28_HooksLast == [][C28_Step]_vars

=============================================================================
